------------------------------ MODULE Spec2Model ------------------------------
(***************************************************************************)
(* Model of the developer-tools research pipeline of advanced-agent:       *)
(* Workflow (src/advanced-agent/src/workflow.py).  A run is the linear     *)
(* graph extract_tools -> research -> analyze; the research stage calls    *)
(* _analyze_company_content once per tool that has a search result.        *)
(*                                                                         *)
(* Python strings are sequences of one-character strings, so that lower(), *)
(* strip(), split(), startswith() and the substring test `in` are computed *)
(* and not assumed.  The text of a tool-analysis response is a sequence of *)
(* lexemes (white space, ``` fence, the word json, braces, prose, the      *)
(* members of a JSON object), which is what the fence stripping, the brace *)
(* slicing and json.loads of _analyze_company_content look at.             *)
(***************************************************************************)
EXTENDS Naturals, Integers, Sequences, FiniteSets, TLC

(***************************************************************************)
(* Bounds of the model.                                                    *)
(***************************************************************************)
\* lines in one tool-extraction response
MaxLines == 5

\* lines in one text given to the line filter on its own
MaxFilterLines == 2

\* no bound but num_results of the direct search of the raw query (line
\* 233): the search gives at most as many results as it is asked for
MaxTitles == 4

(***************************************************************************)
(* Python str operations.                                                  *)
(***************************************************************************)
UpperChars ==
    <<"A", "B", "C", "D", "E", "F", "G", "H", "I", "J", "K", "L", "M", "N", "O", "P", "Q", "R", "S", "T", "U", "V", "W", "X", "Y", "Z">>
LowerChars ==
    <<"a", "b", "c", "d", "e", "f", "g", "h", "i", "j", "k", "l", "m", "n", "o", "p", "q", "r", "s", "t", "u", "v", "w", "x", "y", "z">>

\* str.lower() of one character
LowerChar(c) ==
    IF \E i \in 1..Len(UpperChars) : UpperChars[i] = c
    THEN LowerChars[CHOOSE i \in 1..Len(UpperChars) : UpperChars[i] = c]
    ELSE c

\* str.lower()
Lower(s) ==
    [i \in 1..Len(s) |-> LowerChar(s[i])]

\* characters str.strip() and str.split() treat as white space
Whitespace ==
    {" ", "\n", "\t"}

\* str.isdigit() of one character
IsDigit(c) ==
    c \in {"0", "1", "2", "3", "4", "5", "6", "7", "8", "9"}

\* `sub in s`
IsSubstr(sub, s) ==
    \E i \in 1..(Len(s) + 1) :
        /\ i + Len(sub) - 1 <= Len(s)
        /\ SubSeq(s, i, i + Len(sub) - 1) = sub

\* s.startswith(p)
StartsWith(s, p) ==
    /\ Len(p) <= Len(s)
    /\ SubSeq(s, 1, Len(p)) = p

\* least and greatest element of a non-empty set of numbers
SetMin(S) ==
    CHOOSE x \in S : \A y \in S : x <= y

SetMax(S) ==
    CHOOSE x \in S : \A y \in S : y <= x

\* s.strip()
Strip(s) ==
    LET keep == {i \in 1..Len(s) : s[i] \notin Whitespace}
    IN  IF keep = {} THEN <<>> ELSE SubSeq(s, SetMin(keep), SetMax(keep))

\* s.split("\n")
RECURSIVE SplitLines(_)
SplitLines(s) ==
    IF \E i \in 1..Len(s) : s[i] = "\n"
    THEN LET i == CHOOSE j \in 1..Len(s) :
                      s[j] = "\n" /\ \A k \in 1..(j - 1) : s[k] # "\n"
         IN  <<SubSeq(s, 1, i - 1)>> \o SplitLines(SubSeq(s, i + 1, Len(s)))
    ELSE <<s>>

\* len(s.split()): the number of maximal runs of non-white-space characters
WordCount(s) ==
    Cardinality({i \in 1..Len(s) :
        /\ s[i] \notin Whitespace
        /\ (i = 1 \/ s[i - 1] \in Whitespace)})

\* "\n".join(lines)
RECURSIVE JoinLines(_)
JoinLines(lines) ==
    IF lines = <<>> THEN <<>>
    ELSE IF Len(lines) = 1 THEN lines[1]
    ELSE lines[1] \o <<"\n">> \o JoinLines(Tail(lines))

(***************************************************************************)
(* Literals of workflow.py.                                                *)
(***************************************************************************)
Free ==
    <<"F", "r", "e", "e">>

Freemium ==
    <<"F", "r", "e", "e", "m", "i", "u", "m">>

Paid ==
    <<"P", "a", "i", "d">>

Enterprise ==
    <<"E", "n", "t", "e", "r", "p", "r", "i", "s", "e">>

Unknown ==
    <<"U", "n", "k", "n", "o", "w", "n">>

\* the five values of pricingModel
PricingModels ==
    {Free, Freemium, Paid, Enterprise, Unknown}

FreeKeywords ==
    { <<"f", "r", "e", "e">>,
      <<"$", "0">>,
      <<"n", "o", " ", "c", "o", "s", "t">>
    }

FreemiumKeywords ==
    { <<"f", "r", "e", "e", "m", "i", "u", "m">>,
      <<"f", "r", "e", "e", " ", "t", "i", "e", "r">>,
      <<"f", "r", "e", "e", " ", "p", "l", "a", "n">>
    }

EnterpriseKeywords ==
    { <<"e", "n", "t", "e", "r", "p", "r", "i", "s", "e">>,
      <<"c", "o", "n", "t", "a", "c", "t", " ", "s", "a", "l", "e", "s">>
    }

PaidKeywords ==
    { <<"$">>,
      <<"p", "r", "i", "c", "e">>,
      <<"p", "a", "i", "d">>,
      <<"s", "u", "b", "s", "c", "r", "i", "p", "t", "i", "o", "n">>
    }

NoDescription ==
    <<"N", "o", " ", "d", "e", "s", "c", "r", "i", "p", "t", "i", "o", "n", " ", "a", "v", "a", "i", "l", "a", "b", "l", "e">>

DeveloperToolSuffix ==
    <<" ", "i", "s", " ", "a", " ", "d", "e", "v", "e", "l", "o", "p", "e", "r", " ", "t", "o", "o", "l">>

OfficialSiteSuffix ==
    <<" ", "o", "f", "f", "i", "c", "i", "a", "l", " ", "s", "i", "t", "e">>

UnknownTitle ==
    <<"U", "n", "k", "n", "o", "w", "n">>

TrueText ==
    <<"t", "r", "u", "e">>

FalseText ==
    <<"f", "a", "l", "s", "e">>

HereAre ==
    <<"h", "e", "r", "e", " ", "a", "r", "e">>

summary_keywords ==
    { <<"t", "o", "p">>,
      <<"m", "e", "n", "t", "i", "o", "n", "e", "d">>,
      <<"a", "l", "t", "e", "r", "n", "a", "t", "i", "v", "e", "s">>,
      <<"t", "o", "o", "l", "s">>,
      <<"s", "u", "m", "m", "a", "r", "y">>,
      <<"a", "r", "t", "i", "c", "l", "e">>,
      <<"c", "o", "n", "t", "e", "n", "t">>
    }

github ==
    <<"g", "i", "t", "h", "u", "b">>

copilot ==
    <<"c", "o", "p", "i", "l", "o", "t">>

cursor ==
    <<"c", "u", "r", "s", "o", "r">>

tabnine ==
    <<"t", "a", "b", "n", "i", "n", "e">>

GithubIntegrations ==
    << <<"G", "i", "t", "H", "u", "b">>,
      <<"V", "S", " ", "C", "o", "d", "e">>
    >>

CopilotLanguages ==
    << <<"P", "y", "t", "h", "o", "n">>,
      <<"J", "a", "v", "a", "S", "c", "r", "i", "p", "t">>,
      <<"T", "y", "p", "e", "S", "c", "r", "i", "p", "t">>
    >>

CursorIntegrations ==
    << <<"V", "S", " ", "C", "o", "d", "e">>
    >>

TabnineIntegrations ==
    << <<"V", "S", " ", "C", "o", "d", "e">>,
      <<"I", "n", "t", "e", "l", "l", "i", "J">>,
      <<"S", "u", "b", "l", "i", "m", "e", " ", "T", "e", "x", "t">>
    >>

\* max_retries one too high
max_retries_three ==
    2 + 1

\* max_retries of _analyze_company_content
max_retries ==
    2

\* the slice one too long
ResearchLimitFive ==
    4 + 1

\* extracted_tools[:4] of _research_step
ResearchLimit ==
    4

(***************************************************************************)
(* JSON values, as json.loads returns them.                                *)
(***************************************************************************)
\* a key that the object does not have
JAbsent ==
    [k |-> "absent", s |-> <<>>, items |-> <<>>]

JNull ==
    [k |-> "null", s |-> <<>>, items |-> <<>>]

JTrue ==
    [k |-> "true", s |-> <<>>, items |-> <<>>]

JFalse ==
    [k |-> "false", s |-> <<>>, items |-> <<>>]

JNum ==
    [k |-> "num", s |-> <<>>, items |-> <<>>]

JObj ==
    [k |-> "obj", s |-> <<>>, items |-> <<>>]

JStr(s) ==
    [k |-> "str", s |-> s, items |-> <<>>]

JList(items) ==
    [k |-> "list", s |-> <<>>, items |-> items]

\* the keys of the object the tool-analysis prompt asks for
Fields ==
    {"pricing_model", "is_open_source", "tech_stack", "description",
     "api_available", "language_support", "integration_capabilities"}

ListFields ==
    {"tech_stack", "language_support", "integration_capabilities"}

BoolFields ==
    {"is_open_source", "api_available"}

\* the object {}
EmptyData ==
    [f \in Fields |-> JAbsent]

(***************************************************************************)
(* CompanyAnalysis, the record type of src/models.py.                      *)
(***************************************************************************)
\* the value of an optional bool field of a record: True, False or None
OptionalBool(v) ==
    CASE v.k = "true" -> "True"
      [] v.k = "false" -> "False"
      [] OTHER -> "None"

\* the value of a list-of-strings field of a record
StringList(v) ==
    [i \in 1..Len(v.items) |-> v.items[i].s]

\* CompanyAnalysis(**data) accepts data: every field has its declared type
ValidCompanyAnalysis(data) ==
    /\ data["pricing_model"].k = "str"
    /\ data["pricing_model"].s \in PricingModels
    /\ data["description"].k = "str"
    /\ \A f \in BoolFields : data[f].k \in {"true", "false", "null", "absent"}
    /\ \A f \in ListFields :
          \/ data[f].k = "absent"
          \/ /\ data[f].k = "list"
             /\ \A i \in 1..Len(data[f].items) : data[f].items[i].k = "str"

\* the record CompanyAnalysis(**data) builds from accepted data
CompanyAnalysis(data) ==
    [pricing_model |-> data["pricing_model"].s,
     is_open_source |-> OptionalBool(data["is_open_source"]),
     tech_stack |-> StringList(data["tech_stack"]),
     description |-> data["description"].s,
     api_available |-> OptionalBool(data["api_available"]),
     language_support |-> StringList(data["language_support"]),
     integration_capabilities |-> StringList(data["integration_capabilities"])]

\* None, where a CompanyAnalysis is expected
NoAnalysis ==
    [none |-> TRUE]

(***************************************************************************)
(* _create_fallback_analysis                                               *)
(***************************************************************************)
\* any(word in content_lower for word in words)
AnyKeyword(words, content_lower) ==
    \E word \in words : IsSubstr(word, content_lower)

\* PricingOf with the test for Freemium ahead of the test for Free
PricingOfFreemiumFirst(content_lower, default) ==
    IF AnyKeyword(FreemiumKeywords, content_lower) THEN Freemium
    ELSE IF AnyKeyword(FreeKeywords, content_lower) THEN Free
    ELSE IF AnyKeyword(EnterpriseKeywords, content_lower) THEN Enterprise
    ELSE IF AnyKeyword(PaidKeywords, content_lower) THEN Paid
    ELSE default

\* PricingOf with the test for Paid ahead of the test for Enterprise
PricingOfPaidFirst(content_lower, default) ==
    IF AnyKeyword(FreeKeywords, content_lower) THEN Free
    ELSE IF AnyKeyword(FreemiumKeywords, content_lower) THEN Freemium
    ELSE IF AnyKeyword(PaidKeywords, content_lower) THEN Paid
    ELSE IF AnyKeyword(EnterpriseKeywords, content_lower) THEN Enterprise
    ELSE default

\* the pricing for content_lower, with Unknown or another default
PricingOf(content_lower, default) ==
    IF AnyKeyword(FreeKeywords, content_lower) THEN Free
    ELSE IF AnyKeyword(FreemiumKeywords, content_lower) THEN Freemium
    ELSE IF AnyKeyword(EnterpriseKeywords, content_lower) THEN Enterprise
    ELSE IF AnyKeyword(PaidKeywords, content_lower) THEN Paid
    ELSE default

\* the one element of a set of one element; a value bound in a set is
\* evaluated once
The(S) ==
    CHOOSE x \in S : TRUE

\* FallbackPricing with a default outside the five values
FallbackPricingNotAvailable(content) ==
    The({PricingOf(content_lower, <<"N", "/", "A">>) :
            content_lower \in {Lower(content)}})

\* the keyword detection for pricing, lines 190-201
FallbackPricing(content) ==
    The({PricingOf(content_lower, Unknown) : content_lower \in {Lower(content)}})

\* language_support seeded from the company name
FallbackLanguages(company_name) ==
    The({IF IsSubstr(copilot, name) THEN CopilotLanguages ELSE <<>> :
            name \in {Lower(company_name)}})

\* IntegrationsOf as an if/elif chain: the earlier test wins
IntegrationsOfFirstWins(name) ==
    IF IsSubstr(github, name) THEN GithubIntegrations
    ELSE IF IsSubstr(cursor, name) THEN CursorIntegrations
    ELSE IF IsSubstr(tabnine, name) THEN TabnineIntegrations
    ELSE <<>>

\* integration_capabilities for the lowered name: the later test wins
IntegrationsOf(name) ==
    LET i1 == IF IsSubstr(github, name) THEN GithubIntegrations ELSE <<>>
        i2 == IF IsSubstr(cursor, name) THEN CursorIntegrations ELSE i1
    IN  IF IsSubstr(tabnine, name) THEN TabnineIntegrations ELSE i2

\* integration_capabilities seeded from the company name
FallbackIntegrations(company_name) ==
    The({IntegrationsOf(name) : name \in {Lower(company_name)}})

\* create_fallback_analysis with the optional booleans False instead of None
create_fallback_analysis_false(company_name, llm_response, content) ==
    [pricing_model |-> FallbackPricing(content),
     is_open_source |-> "False",
     tech_stack |-> <<>>,
     description |-> company_name \o DeveloperToolSuffix,
     api_available |-> "False",
     language_support |-> FallbackLanguages(company_name),
     integration_capabilities |-> FallbackIntegrations(company_name)]

create_fallback_analysis(company_name, llm_response, content) ==
    [pricing_model |-> FallbackPricing(content),
     is_open_source |-> "None",
     tech_stack |-> <<>>,
     description |-> company_name \o DeveloperToolSuffix,
     api_available |-> "None",
     language_support |-> FallbackLanguages(company_name),
     integration_capabilities |-> FallbackIntegrations(company_name)]

(***************************************************************************)
(* The text of a tool-analysis response, as a sequence of lexemes.         *)
(***************************************************************************)
Lexeme(kind) ==
    [t |-> kind, ok |-> FALSE, data |-> EmptyData]

\* a run of white space
Ws ==
    Lexeme("ws")

\* three backquotes
Fence ==
    Lexeme("fence")

\* the word json
JsonWord ==
    Lexeme("json")

LBrace ==
    Lexeme("lbrace")

RBrace ==
    Lexeme("rbrace")

\* a run of other characters, without brace or backquote
Prose ==
    Lexeme("prose")

\* the text between two braces that is the members of the JSON object data
Members(data) ==
    [t |-> "members", ok |-> TRUE, data |-> data]

\* text between two braces that is not valid JSON
BadMembers ==
    [t |-> "members", ok |-> FALSE, data |-> EmptyData]

\* json_str.strip()
StripText(s) ==
    LET keep == {i \in 1..Len(s) : s[i] # Ws}
    IN  IF keep = {} THEN <<>> ELSE SubSeq(s, SetMin(keep), SetMax(keep))

\* json_str.startswith('```json'), then json_str[7:]
StripLeadingFence(s) ==
    IF Len(s) >= 2 /\ s[1] = Fence /\ s[2] = JsonWord
    THEN SubSeq(s, 3, Len(s))
    ELSE s

\* StripTrailingFence that leaves the closing fence in place
StripTrailingFenceKept(s) ==
    s

\* json_str.endswith('```'), then json_str[:-3]
StripTrailingFence(s) ==
    IF s # <<>> /\ s[Len(s)] = Fence
    THEN SubSeq(s, 1, Len(s) - 1)
    ELSE s

\* json_str.find('{') and json_str.rfind('}'), -1 when there is none
Find(s, lexeme) ==
    LET at == {i \in 1..Len(s) : s[i] = lexeme}
    IN  IF at = {} THEN -1 ELSE SetMin(at)

RFind(s, lexeme) ==
    LET at == {i \in 1..Len(s) : s[i] = lexeme}
    IN  IF at = {} THEN -1 ELSE SetMax(at)

IsNotWs(lexeme) ==
    lexeme # Ws

\* json.loads(json_str): an object, or a JSONDecodeError
JsonLoads(s) ==
    LET body == SelectSeq(s, IsNotWs)
    IN  IF body = <<LBrace, RBrace>>
        THEN [ok |-> TRUE, data |-> EmptyData]
        ELSE IF /\ Len(body) = 3
                /\ body[1] = LBrace
                /\ body[2].t = "members"
                /\ body[2].ok
                /\ body[3] = RBrace
        THEN [ok |-> TRUE, data |-> body[2].data]
        ELSE [ok |-> FALSE, data |-> EmptyData]

(***************************************************************************)
(* _analyze_company_content: one pass of the retry loop.                   *)
(***************************************************************************)
\* ConvertStringBool without lower(): the comparison is case-sensitive
ConvertStringBoolCaseSensitive(v) ==
    IF v.k = "str"
    THEN IF v.s = TrueText THEN JTrue
         ELSE IF v.s = FalseText THEN JFalse
         ELSE JNull
    ELSE v

\* string booleans become booleans, any other string None
ConvertStringBool(v) ==
    IF v.k = "str"
    THEN IF Lower(v.s) = TrueText THEN JTrue
         ELSE IF Lower(v.s) = FalseText THEN JFalse
         ELSE JNull
    ELSE v

\* EnsureList without the isinstance test: only a missing key becomes []
EnsureListMissingOnly(v) ==
    IF v.k = "absent" THEN JList(<<>>) ELSE v

\* a list field that is missing or not a list becomes []
EnsureList(v) ==
    IF v.k = "absent" THEN JList(<<>>)
    ELSE IF v.k # "list" THEN JList(<<>>)
    ELSE v

\* a required string field that is missing gets its default
EnsureString(v, default) ==
    IF v.k = "absent" THEN JStr(default) ELSE v

\* data after lines 143-171
NormalizeData(data) ==
    [f \in Fields |->
        CASE f \in BoolFields -> ConvertStringBool(data[f])
          [] f \in ListFields -> EnsureList(data[f])
          [] f = "pricing_model" -> EnsureString(data[f], Unknown)
          [] OTHER -> EnsureString(data[f], NoDescription)]

\* how a pass of the loop body ends
Continue ==
    [ctl |-> "continue", value |-> NoAnalysis, via |-> "retry"]

Raise ==
    [ctl |-> "raise", value |-> NoAnalysis, via |-> "raise"]

Return(analysis, via) ==
    [ctl |-> "return", value |-> analysis, via |-> via]

\* lines 140-174: parse, normalise, construct
ParseAndBuild(json_str) ==
    LET parsed == JsonLoads(json_str)
        data == NormalizeData(parsed.data)
    IN  IF ~parsed.ok THEN Raise
        ELSE IF ~ValidCompanyAnalysis(data) THEN Raise
        ELSE Return(CompanyAnalysis(data), "parsed")

\* SliceAndParse that answers a text without braces by the fallback on
\* either attempt
SliceAndParseNoRetry(company_name, content, attempt, json_str) ==
    IF json_str # <<>> /\ json_str[1] = LBrace
    THEN ParseAndBuild(json_str)
    ELSE LET start_idx == Find(json_str, LBrace)
             end_idx == RFind(json_str, RBrace)
         IN  IF start_idx # -1 /\ end_idx # -1
             THEN ParseAndBuild(SubSeq(json_str, start_idx, end_idx))
             ELSE Return(create_fallback_analysis(company_name, json_str, content),
                         "no_json")

\* lines 124-138: the text to parse, or the exit when it has no braces
SliceAndParse(company_name, content, attempt, json_str) ==
    IF json_str # <<>> /\ json_str[1] = LBrace
    THEN ParseAndBuild(json_str)
    ELSE LET start_idx == Find(json_str, LBrace)
             end_idx == RFind(json_str, RBrace)
         IN  IF start_idx # -1 /\ end_idx # -1
             THEN ParseAndBuild(SubSeq(json_str, start_idx, end_idx))
             ELSE IF attempt < max_retries - 1
             THEN Continue
             ELSE Return(create_fallback_analysis(company_name, json_str, content),
                         "no_json")

\* lines 95-174: the try block, for the response the model gives; a content
\* that is no str has no strip() and raises at line 102
TryBlock(company_name, content, attempt, response) ==
    IF response.raises \/ ~response.is_str THEN Raise
    ELSE LET json_str == StripText(response.content)
         IN  IF json_str = <<>>
             THEN IF attempt < max_retries - 1 THEN Continue ELSE Raise
             ELSE SliceAndParse(company_name, content, attempt,
                     StripText(StripTrailingFence(StripLeadingFence(json_str))))

\* ExceptClause that re-raises on the last attempt
ExceptClauseReraises(company_name, content, attempt) ==
    IF attempt < max_retries - 1 THEN Continue ELSE Raise

\* lines 176-184: the except clause
ExceptClause(company_name, content, attempt) ==
    IF attempt < max_retries - 1
    THEN Continue
    ELSE Return(create_fallback_analysis(company_name, <<>>, content), "except")

\* one pass of the loop: the try block, and the except clause when it raises
LoopPass(company_name, content, attempt, response) ==
    LET body == TryBlock(company_name, content, attempt, response)
    IN  IF body.ctl = "raise"
        THEN ExceptClause(company_name, content, attempt)
        ELSE body

(***************************************************************************)
(* What the collaborators may answer: the inputs of a run.                 *)
(***************************************************************************)
\* the query of the run
Query ==
    <<"d", "b">>

ArticleQuerySuffix ==
    <<" ", "t", "o", "o", "l", "s", " ", "c", "o", "m", "p", "a", "r", "i", "s", "o", "n", " ", "b", "e", "s", "t", " ", "a", "l", "t", "e", "r", "n", "a", "t", "i", "v", "e", "s">>

\* urls of search results
PdfUrl ==
    <<"a", ".", "p", "d", "f">>

PageUrl ==
    <<"a", ".", "i", "o">>

\* a page body
PageText ==
    <<"S", "u", "p", "a", "b", "a", "s", "e", " ", "h", "a", "s", " ", "a", " ", "f", "r", "e", "e", " ", "t", "i", "e", "r">>

BlankText ==
    <<" ", "\n">>

\* lines of a tool-extraction response
LineX ==
    <<"X">>

LineCursor ==
    <<" ", "C", "u", "r", "s", "o", "r", " ">>

LineNumbered ==
    <<"1", ".", " ", "S", "u", "p", "a", "b", "a", "s", "e">>

LinePreamble ==
    <<"H", "e", "r", "e", " ", "a", "r", "e", " ", "t", "h", "e", " ", "t", "o", "o", "l", "s", ":">>

\* the title of a direct search result
ToolTitle ==
    <<"G", "i", "t", "H", "u", "b", " ", "C", "o", "p", "i", "l", "o", "t">>

\* the page body scraped for a tool
ToolPage ==
    <<"D", "o", "c", "s", " ", "a", "n", "d", " ", "g", "u", "i", "d", "e", "s">>

\* the names and contents the engine is called with
EngineCalls ==
    {<<<<"X">>,
       <<>>>>,
     <<<<"G", "i", "t", "H", "u", "b", " ", "C", "o", "p", "i", "l", "o", "t">>,
       <<"F", "r", "e", "e", " ", "a", "n", "d", " ", "o", "p", "e", "n", " ", "s", "o", "u", "r", "c", "e">>>>,
     <<<<"C", "u", "r", "s", "o", "r">>,
       <<"f", "r", "e", "e", " ", "t", "i", "e", "r", ",", " ", "t", "h", "e", "n", " ", "$", "9">>>>,
     <<<<"T", "a", "b", "n", "i", "n", "e">>,
       <<"C", "o", "n", "t", "a", "c", "t", " ", "S", "a", "l", "e", "s">>>>,
     <<<<"X">>,
       <<"S", "u", "b", "s", "c", "r", "i", "p", "t", "i", "o", "n">>>>,
     <<<<"m", "y", " ", "c", "u", "r", "s", "o", "r">>,
       <<"n", "o", "t", "h", "i", "n", "g", " ", "h", "e", "r", "e">>>>}

\* strings a JSON object may carry
Premium ==
    <<"P", "r", "e", "m", "i", "u", "m">>

TrueUpper ==
    <<"T", "R", "U", "E">>

FalseMixed ==
    <<"F", "a", "l", "s", "e">>

Maybe ==
    <<"m", "a", "y", "b", "e">>

Rust ==
    <<"R", "u", "s", "t">>

ShortDescription ==
    <<"A", " ", "t", "o", "o", "l">>

\* a recommendation text
Recommendation ==
    <<"U", "s", "e", " ", "X">>

\* what llm.invoke does: it raises, or returns a response whose content is
\* a str (text) or something else
Response(raises, is_str, text) ==
    [raises |-> raises, is_str |-> is_str, content |-> text]

RaisingResponse ==
    Response(TRUE, FALSE, <<>>)

NonStringResponse ==
    Response(FALSE, FALSE, <<>>)

TextResponse(text) ==
    Response(FALSE, TRUE, text)

\* the object of the prompt's example
BaseData ==
    [pricing_model |-> JStr(Free),
     is_open_source |-> JFalse,
     tech_stack |-> JList(<<JStr(Rust)>>),
     description |-> JStr(ShortDescription),
     api_available |-> JTrue,
     language_support |-> JList(<<JStr(Rust)>>),
     integration_capabilities |-> JList(<<>>)]

\* values the model may give a key
FieldValues(f) ==
    CASE f = "pricing_model" ->
            {JAbsent, JNull, JNum, JStr(Premium)} \cup {JStr(p) : p \in PricingModels}
      [] f \in BoolFields ->
            {JAbsent, JNull, JTrue, JFalse, JNum, JList(<<>>), JStr(TrueText),
             JStr(TrueUpper), JStr(FalseMixed), JStr(Maybe)}
      [] f \in ListFields ->
            {JAbsent, JNull, JNum, JObj, JStr(Rust), JList(<<>>),
             JList(<<JStr(Rust), JStr(Premium)>>), JList(<<JNum>>)}
      [] OTHER ->
            {JAbsent, JNull, JStr(ShortDescription)}

\* objects the model may return: the example or {} with one key changed
ObjectSamples ==
    UNION {{[base EXCEPT ![f] = v] : v \in FieldValues(f)} :
              f \in Fields, base \in {BaseData, EmptyData}}

\* the text of an object
ObjectText(data) ==
    <<LBrace, Members(data), RBrace>>

\* the ways the model wraps an object
WrappedTexts(data) ==
    {<<Ws>> \o ObjectText(data) \o <<Ws>>,
     <<Fence, JsonWord, Ws>> \o ObjectText(data) \o <<Ws, Fence>>,
     <<Fence, JsonWord>> \o ObjectText(data) \o <<Fence>>,
     <<Fence, Ws>> \o ObjectText(data) \o <<Ws, Fence>>,
     <<Prose, Ws>> \o ObjectText(data) \o <<Ws, Prose>>,
     ObjectText(data) \o <<Ws, Prose>>,
     <<Prose>> \o ObjectText(data) \o <<Prose>> \o ObjectText(data)}

\* texts that are no JSON object
BrokenTexts ==
    {<<>>, <<Ws>>, <<Prose>>, <<Fence>>, <<Fence, JsonWord>>,
     <<Fence, JsonWord, Ws, Fence>>, <<Prose, LBrace>>, <<Prose, RBrace>>,
     <<RBrace, Prose, LBrace>>, <<LBrace, BadMembers, RBrace>>,
     <<Fence, JsonWord, Ws, LBrace, BadMembers, RBrace, Ws, Fence>>,
     <<LBrace, RBrace>>}

\* the answers to a tool-analysis prompt, for the engine on its own
EngineResponses ==
    {RaisingResponse, NonStringResponse}
    \cup {TextResponse(text) : text \in BrokenTexts}
    \cup {TextResponse(ObjectText(data)) : data \in ObjectSamples}
    \cup {TextResponse(text) : text \in WrappedTexts(BaseData)}

\* the answers to a tool-analysis prompt, within a run
PipelineResponses ==
    {RaisingResponse,
     TextResponse(<<>>),
     TextResponse(<<Prose, LBrace, BadMembers, RBrace>>),
     TextResponse(<<Fence, JsonWord, Ws>> \o ObjectText(BaseData) \o <<Ws, Fence>>)}

(***************************************************************************)
(* The line filter of _extract_tools_step.                                 *)
(***************************************************************************)
\* KeepLine with the word test as `>= 5`
KeepLineFromFive(line) ==
    /\ line # <<>>
    /\ ~StartsWith(Lower(line), HereAre)
    /\ ~(IsDigit(line[1]) /\ IsSubstr(<<".">>, line))
    /\ ~\E word \in summary_keywords : IsSubstr(word, Lower(line))
    /\ ~(WordCount(line) >= 5)

\* KeepLine with the digit test on a digit followed at once by "."
KeepLineMarker(line) ==
    /\ line # <<>>
    /\ ~StartsWith(Lower(line), HereAre)
    /\ ~(IsDigit(line[1]) /\ Len(line) >= 2 /\ line[2] = ".")
    /\ ~\E word \in summary_keywords : IsSubstr(word, Lower(line))
    /\ ~(WordCount(line) > 5)

\* a stripped line passes the tests of lines 71-82
KeepLine(line) ==
    /\ line # <<>>
    /\ ~StartsWith(Lower(line), HereAre)
    /\ ~(IsDigit(line[1]) /\ IsSubstr(<<".">>, line))
    /\ ~\E word \in summary_keywords : IsSubstr(word, Lower(line))
    /\ ~(WordCount(line) > 5)

\* ExtractToolNames that appends the line as it was before line.strip()
ExtractToolNamesUntrimmed(text) ==
    LET lines == SplitLines(Strip(text))
        Kept(line) == KeepLine(Strip(line))
    IN  SelectSeq(lines, Kept)

\* tool_names of lines 67-83, for a str response content
ExtractToolNames(text) ==
    LET lines == SplitLines(Strip(text))
        stripped == [i \in 1..Len(lines) |-> Strip(lines[i])]
    IN  SelectSeq(stripped, KeepLine)

\* s[:n]
Prefix(s, n) ==
    SubSeq(s, 1, IF Len(s) < n THEN Len(s) ELSE n)

(***************************************************************************)
(* Texts for the line filter on its own.                                   *)
(***************************************************************************)
\* the lines the texts are made of: the empty line, a numbered line, and
\*   "PlanetScale": a plain name;
\*   "  Supabase\t": a name with white space around it;
\*   "   ": a line of white space;
\*   "HERE ARE five": a preamble, in capitals;
\*   "2captcha.com": a digit first and a dot further on;
\*   "3Scale": a digit first and no dot;
\*   "Fly.io": a dot and no digit first;
\*   "This summary mentions many tools": a sentence with summary keywords;
\*   "Laptop": a name that holds the keyword top;
\*   "Railway CLI deploy assistant extra words here too": eight words;
\*   "a b c d e": five words;
\*   "a b c d e f": six words
FilterLines ==
    {<<>>, LineNumbered,
     <<"P", "l", "a", "n", "e", "t", "S", "c", "a", "l", "e">>,
     <<" ", " ", "S", "u", "p", "a", "b", "a", "s", "e", "\t">>,
     <<" ", " ", " ">>,
     <<"H", "E", "R", "E", " ", "A", "R", "E", " ", "f", "i", "v", "e">>,
     <<"2", "c", "a", "p", "t", "c", "h", "a", ".", "c", "o", "m">>,
     <<"3", "S", "c", "a", "l", "e">>,
     <<"F", "l", "y", ".", "i", "o">>,
     <<"T", "h", "i", "s", " ", "s", "u", "m", "m", "a", "r", "y", " ", "m", "e", "n", "t", "i", "o", "n", "s", " ", "m", "a", "n", "y", " ", "t", "o", "o", "l", "s">>,
     <<"L", "a", "p", "t", "o", "p">>,
     <<"R", "a", "i", "l", "w", "a", "y", " ", "C", "L", "I", " ", "d", "e", "p", "l", "o", "y", " ", "a", "s", "s", "i", "s", "t", "a", "n", "t", " ", "e", "x", "t", "r", "a", " ", "w", "o", "r", "d", "s", " ", "h", "e", "r", "e", " ", "t", "o", "o">>,
     <<"a", " ", "b", " ", "c", " ", "d", " ", "e">>,
     <<"a", " ", "b", " ", "c", " ", "d", " ", "e", " ", "f">>}

\* a response with a preamble, a numbered line, a name, a summary sentence
\* and a line of eight words
FilterExample ==
    <<LinePreamble, LineNumbered,
      <<"P", "l", "a", "n", "e", "t", "S", "c", "a", "l", "e">>,
      <<"T", "h", "i", "s", " ", "s", "u", "m", "m", "a", "r", "y", " ", "m", "e", "n", "t", "i", "o", "n", "s", " ", "m", "a", "n", "y", " ", "t", "o", "o", "l", "s">>,
      <<"R", "a", "i", "l", "w", "a", "y", " ", "C", "L", "I", " ", "d", "e", "p", "l", "o", "y", " ", "a", "s", "s", "i", "s", "t", "a", "n", "t", " ", "e", "x", "t", "r", "a", " ", "w", "o", "r", "d", "s", " ", "h", "e", "r", "e", " ", "t", "o", "o">>>>

\* Seq(S) up to length n
SeqUpTo(S, n) ==
    UNION {[1..k -> S] : k \in 0..n}

\* the texts given to the line filter
FilterTexts ==
    {JoinLines(lines) : lines \in SeqUpTo(FilterLines, MaxFilterLines) \cup {FilterExample}}

(***************************************************************************)
(* Names and contents for _create_fallback_analysis on its own.            *)
(***************************************************************************)
\* content[:2000] of the tool-analysis prompt
PromptLimit == 2000

PromptContent(content) ==
    Prefix(content, PromptLimit)

\* the company names:
\*   "X", "GitHub Copilot", "Cursor", "Tabnine", "Copilot",
\*   "GitHub Desktop", "Cursor for GitHub", "GitHub Cursor",
\*   "Tabnine for GitHub", "TABNINE cursor"
FallbackNames ==
    {<<"X">>,
     <<"G", "i", "t", "H", "u", "b", " ", "C", "o", "p", "i", "l", "o", "t">>,
     <<"C", "u", "r", "s", "o", "r">>,
     <<"T", "a", "b", "n", "i", "n", "e">>,
     <<"C", "o", "p", "i", "l", "o", "t">>,
     <<"G", "i", "t", "H", "u", "b", " ", "D", "e", "s", "k", "t", "o", "p">>,
     <<"C", "u", "r", "s", "o", "r", " ", "f", "o", "r", " ", "G", "i", "t", "H", "u", "b">>,
     <<"G", "i", "t", "H", "u", "b", " ", "C", "u", "r", "s", "o", "r">>,
     <<"T", "a", "b", "n", "i", "n", "e", " ", "f", "o", "r", " ", "G", "i", "t", "H", "u", "b">>,
     <<"T", "A", "B", "N", "I", "N", "E", " ", "c", "u", "r", "s", "o", "r">>}

\* a content with "price" in its first characters and " FREE" past the
\* part the prompt shows
LongContent ==
    <<"p", "r", "i", "c", "e">> \o [i \in 1..PromptLimit |-> "x"] \o <<" ", "F", "R", "E", "E">>

\* the contents: LongContent and
\*   "", "nothing here", "It is FREE", "from $0", "No Cost at all",
\*   "Freemium", "free tier", "Free Plan", "Enterprise", "contact sales",
\*   "$9 a month", "Price list", "PAID", "subscription", "enterprise, paid",
\*   "paid enterprise", "Paid or free", "contact sales for a free plan",
\*   "Enterprise freemium"
FallbackContents ==
    {LongContent,
     <<>>,
     <<"n", "o", "t", "h", "i", "n", "g", " ", "h", "e", "r", "e">>,
     <<"I", "t", " ", "i", "s", " ", "F", "R", "E", "E">>,
     <<"f", "r", "o", "m", " ", "$", "0">>,
     <<"N", "o", " ", "C", "o", "s", "t", " ", "a", "t", " ", "a", "l", "l">>,
     <<"F", "r", "e", "e", "m", "i", "u", "m">>,
     <<"f", "r", "e", "e", " ", "t", "i", "e", "r">>,
     <<"F", "r", "e", "e", " ", "P", "l", "a", "n">>,
     <<"E", "n", "t", "e", "r", "p", "r", "i", "s", "e">>,
     <<"c", "o", "n", "t", "a", "c", "t", " ", "s", "a", "l", "e", "s">>,
     <<"$", "9", " ", "a", " ", "m", "o", "n", "t", "h">>,
     <<"P", "r", "i", "c", "e", " ", "l", "i", "s", "t">>,
     <<"P", "A", "I", "D">>,
     <<"s", "u", "b", "s", "c", "r", "i", "p", "t", "i", "o", "n">>,
     <<"e", "n", "t", "e", "r", "p", "r", "i", "s", "e", ",", " ", "p", "a", "i", "d">>,
     <<"p", "a", "i", "d", " ", "e", "n", "t", "e", "r", "p", "r", "i", "s", "e">>,
     <<"P", "a", "i", "d", " ", "o", "r", " ", "f", "r", "e", "e">>,
     <<"c", "o", "n", "t", "a", "c", "t", " ", "s", "a", "l", "e", "s", " ", "f", "o", "r", " ", "a", " ", "f", "r", "e", "e", " ", "p", "l", "a", "n">>,
     <<"E", "n", "t", "e", "r", "p", "r", "i", "s", "e", " ", "f", "r", "e", "e", "m", "i", "u", "m">>}

(***************************************************************************)
(* Search and scrape answers.                                              *)
(***************************************************************************)
\* a search result: its url and, when it has one, its title
SearchResult(url, has_title, title) ==
    [url |-> url, has_title |-> has_title, title |-> title]

\* search_results.data if hasattr(search_results, 'data') else []
ResultsData(search_results) ==
    IF search_results.has_data THEN search_results.data ELSE <<>>

\* a search answer with a result list, and the answer of a failed search
SearchData(results) ==
    [has_data |-> TRUE, data |-> results]

SearchError ==
    [has_data |-> FALSE, data |-> <<>>]

\* a scrape answer: None, or a page whose markdown may be absent or no str
Scraped(is_none, has_markdown, is_str, markdown) ==
    [is_none |-> is_none, has_markdown |-> has_markdown, is_str |-> is_str,
     markdown |-> markdown]

ScrapedNone ==
    Scraped(TRUE, FALSE, FALSE, <<>>)

ScrapedNoMarkdown ==
    Scraped(FALSE, FALSE, FALSE, <<>>)

ScrapedNonString ==
    Scraped(FALSE, TRUE, FALSE, <<>>)

ScrapedPage(markdown) ==
    Scraped(FALSE, TRUE, TRUE, markdown)

\* no scrape answer yet: scraped is not bound
Unscraped ==
    [unset |-> TRUE]

\* scraped and hasattr(scraped, "markdown") and isinstance(scraped.markdown, str)
HasMarkdown(scraped) ==
    ~scraped.is_none /\ scraped.has_markdown /\ scraped.is_str

\* TitleOf without the default: the empty text for a result without title
TitleOfNoDefault(result) ==
    result.title

\* results.get("metadata", {}).get("title", "Unknown")
TitleOf(result) ==
    IF result.has_title THEN result.title ELSE UnknownTitle

\* s.endswith(p)
EndsWith(s, p) ==
    /\ Len(p) <= Len(s)
    /\ SubSeq(s, Len(s) - Len(p) + 1, Len(s)) = p

\* all_content after the loop of lines 52-58 over the results and the answer
\* to the scrape of each
RECURSIVE GatherContent(_, _)
GatherContent(results_data, scrapes) ==
    IF results_data = <<>> THEN <<>>
    ELSE LET url == Head(results_data).url
             scraped == Head(scrapes)
             rest == GatherContent(Tail(results_data), Tail(scrapes))
         IN  IF EndsWith(url, <<".", "p", "d", "f">>) THEN rest
             ELSE IF HasMarkdown(scraped) /\ Strip(scraped.markdown) # <<>>
             THEN Prefix(scraped.markdown, 1500) \o <<"\n", "\n">> \o rest
             ELSE rest

\* the urls scraped by the loop of lines 52-58
ScrapedUrls(results_data) ==
    LET NotPdf(result) == ~EndsWith(result.url, <<".", "p", "d", "f">>)
        pages == SelectSeq(results_data, NotPdf)
    IN  [i \in 1..Len(pages) |-> pages[i].url]

\* the answers to the search of the extraction stage, each result with the
\* answer to its scrape
ArticleAnswers ==
    {[search |-> SearchError, scrapes |-> <<>>],
     [search |-> SearchData(<<>>), scrapes |-> <<>>],
     [search |-> SearchData(<<SearchResult(PdfUrl, FALSE, <<>>),
                              SearchResult(PageUrl, FALSE, <<>>),
                              SearchResult(PageUrl, FALSE, <<>>)>>),
      scrapes |-> <<ScrapedNone, ScrapedNone, ScrapedPage(PageText)>>],
     [search |-> SearchData(<<SearchResult(PdfUrl, FALSE, <<>>),
                              SearchResult(PageUrl, FALSE, <<>>),
                              SearchResult(PageUrl, FALSE, <<>>)>>),
      scrapes |-> <<ScrapedNone, ScrapedNonString, ScrapedPage(BlankText)>>]}

\* line i of a tool-extraction response
ToolLine(i) ==
    IF i % 2 = 1 THEN LineX ELSE LineCursor

\* the answers to the tool-extraction prompt: up to MaxLines names, with or
\* without a preamble and a numbered line around them
ExtractionResponses ==
    {RaisingResponse, NonStringResponse}
    \cup {TextResponse(JoinLines([i \in 1..n |-> ToolLine(i)])) : n \in 0..MaxLines}
    \cup {TextResponse(JoinLines(<<LinePreamble>>
                                 \o [i \in 1..n |-> ToolLine(i)]
                                 \o <<LineNumbered>>)) : n \in 0..MaxLines}

\* the answers to the direct search of the raw query
DirectAnswers ==
    {SearchError}
    \cup {SearchData([i \in 1..n |-> SearchResult(PageUrl, i \in titled, ToolTitle)]) :
             n \in 0..MaxTitles, titled \in {1..MaxTitles, 2..MaxTitles}}

\* the answers to the search of one tool
ToolAnswers ==
    {SearchError, SearchData(<<>>), SearchData(<<SearchResult(PageUrl, FALSE, <<>>)>>)}

\* the answers to the scrape of a tool's page
ToolScrapes ==
    {ScrapedNone, ScrapedNoMarkdown, ScrapedNonString, ScrapedPage(ToolPage)}

\* the answers to the recommendation prompt
RecommendationResponses ==
    {RaisingResponse, TextResponse(<<>>), TextResponse(Recommendation)}

(***************************************************************************)
(* The state of a run.                                                     *)
(***************************************************************************)
VARIABLES
    pc,               \* where the run is
    stages,           \* the nodes of the graph entered so far, in order
    all_content,      \* all_content of _extract_tools_step
    extract_outcome,  \* how llm.invoke of _extract_tools_step ended
    extracted_tools,  \* state.extracted_tools
    tool_names,       \* tool_names of _research_step
    idx,              \* position of the loop of _research_step in tool_names
    companies,        \* companies of _research_step, then state.companies
    state_analysis,   \* state.analysis, the recommendation
    search_log,       \* the calls of search_companies so far
    scrape_log,       \* the calls of scrape_company_pages so far
    llm_calls,        \* the number of calls of llm.invoke so far
    company_name,     \* arguments of _analyze_company_content
    content,
    attempt,          \* attempt of its retry loop
    responses,        \* the answers of the model within the present call
    analysis,         \* what the call returned
    via,              \* the exit it returned by
    scraped_page      \* scraped of _research_step, for the tool in hand

vars ==
    <<pc, stages, all_content, extract_outcome, extracted_tools, tool_names, idx, companies,
      state_analysis, search_log, scrape_log, llm_calls, company_name, content,
      attempt, responses, analysis, via, scraped_page>>

pipeline_vars ==
    <<stages, all_content, extract_outcome, extracted_tools, tool_names, idx,
      companies, state_analysis, search_log, scrape_log>>

engine_vars ==
    <<company_name, content, attempt, responses, analysis, via, scraped_page>>

\* an optional text: None or a str
NoText ==
    [some |-> FALSE, text |-> <<>>]

SomeText(text) ==
    [some |-> TRUE, text |-> text]

\* a call of search_companies, with the results it gave and their number
SearchCall(stage, query, num_results, answer) ==
    [stage |-> stage, query |-> query, num_results |-> num_results,
     hits |-> Len(ResultsData(answer)), results |-> ResultsData(answer)]

\* a call of scrape_company_pages
ScrapeCall(stage, url) ==
    [stage |-> stage, url |-> url]

\* ResearchState(query=query), before the graph runs
Init ==
    /\ pc = "extract_tools"
    /\ stages = <<>>
    /\ all_content = <<>>
    /\ extract_outcome = "none"
    /\ extracted_tools = <<>>
    /\ tool_names = <<>>
    /\ idx = 0
    /\ companies = <<>>
    /\ state_analysis = NoText
    /\ search_log = <<>>
    /\ scrape_log = <<>>
    /\ llm_calls = 0
    /\ company_name = <<>>
    /\ content = <<>>
    /\ attempt = 0
    /\ responses = <<>>
    /\ analysis = NoAnalysis
    /\ via = "none"
    /\ scraped_page = Unscraped

(***************************************************************************)
(* _extract_tools_step                                                     *)
(***************************************************************************)
\* lines 43-58: the article search and the scrape of each page that is no pdf
ExtractGather ==
    /\ pc = "extract_tools"
    /\ \E answer \in ArticleAnswers :
          LET results_data == ResultsData(answer.search)
              urls == ScrapedUrls(results_data)
          IN  /\ search_log' = Append(search_log,
                     SearchCall("extract_tools", Query \o ArticleQuerySuffix, 3,
                                answer.search))
              /\ scrape_log' = scrape_log \o
                     [i \in 1..Len(urls) |-> ScrapeCall("extract_tools", urls[i])]
              /\ all_content' = GatherContent(results_data, answer.scrapes)
    /\ stages' = Append(stages, "extract_tools")
    /\ pc' = "extract_llm"
    /\ UNCHANGED <<extract_outcome, extracted_tools, tool_names, idx, companies,
                   state_analysis, llm_calls>>
    /\ UNCHANGED engine_vars

\* ExtractInvoke without the try: a raise of llm.invoke leaves the step
ExtractInvokeUnguarded ==
    /\ pc = "extract_llm"
    /\ \E response \in ExtractionResponses :
          /\ extract_outcome' = IF response.raises THEN "raised" ELSE "returned"
          /\ pc' = IF response.raises THEN "raised" ELSE "research"
          /\ extracted_tools' =
                 IF response.raises THEN <<>>
                 ELSE IF response.is_str THEN ExtractToolNames(response.content)
                 ELSE <<>>
    /\ llm_calls' = llm_calls + 1
    /\ all_content' = <<>>
    /\ UNCHANGED <<stages, tool_names, idx, companies, state_analysis,
                   search_log, scrape_log>>
    /\ UNCHANGED engine_vars

\* lines 60-88: the extraction prompt and the line filter; all_content ends
\* with the step
ExtractInvoke ==
    /\ pc = "extract_llm"
    /\ \E response \in ExtractionResponses :
          /\ extract_outcome' = IF response.raises THEN "raised" ELSE "returned"
          /\ extracted_tools' =
                 IF response.raises THEN <<>>
                 ELSE IF response.is_str THEN ExtractToolNames(response.content)
                 ELSE <<>>
    /\ llm_calls' = llm_calls + 1
    /\ all_content' = <<>>
    /\ pc' = "research"
    /\ UNCHANGED <<stages, tool_names, idx, companies, state_analysis,
                   search_log, scrape_log>>
    /\ UNCHANGED engine_vars

(***************************************************************************)
(* _research_step                                                          *)
(***************************************************************************)
\* ResearchCandidates without the slice: tool_names = extracted_tools
ResearchCandidatesUntruncated ==
    /\ pc = "research"
    /\ extracted_tools # <<>>
    /\ tool_names' = extracted_tools
    /\ stages' = Append(stages, "research")
    /\ idx' = 1
    /\ companies' = <<>>
    /\ pc' = "tool_loop"
    /\ UNCHANGED <<all_content, extract_outcome, extracted_tools, state_analysis, search_log,
                   scrape_log, llm_calls>>
    /\ UNCHANGED engine_vars

\* lines 228-244, with candidates: tool_names = extracted_tools[:4]
ResearchCandidates ==
    /\ pc = "research"
    /\ extracted_tools # <<>>
    /\ tool_names' = Prefix(extracted_tools, ResearchLimit)
    /\ stages' = Append(stages, "research")
    /\ idx' = 1
    /\ companies' = <<>>
    /\ pc' = "tool_loop"
    /\ UNCHANGED <<all_content, extract_outcome, extracted_tools, state_analysis, search_log,
                   scrape_log, llm_calls>>
    /\ UNCHANGED engine_vars

\* ResearchDirectSearch without the search: no candidates, no tool names
ResearchDirectSearchSkipped ==
    /\ pc = "research"
    /\ extracted_tools = <<>>
    /\ tool_names' = <<>>
    /\ stages' = Append(stages, "research")
    /\ idx' = 1
    /\ companies' = <<>>
    /\ pc' = "tool_loop"
    /\ UNCHANGED <<all_content, extract_outcome, extracted_tools, state_analysis,
                   search_log, scrape_log, llm_calls>>
    /\ UNCHANGED engine_vars

\* lines 228-244, without candidates: the direct search of the raw query
ResearchDirectSearch ==
    /\ pc = "research"
    /\ extracted_tools = <<>>
    /\ \E answer \in DirectAnswers :
          LET results_data == ResultsData(answer)
          IN  /\ search_log' = Append(search_log,
                     SearchCall("research_direct", Query, 4, answer))
              /\ tool_names' = [i \in 1..Len(results_data) |->
                                   TitleOf(results_data[i])]
    /\ stages' = Append(stages, "research")
    /\ idx' = 1
    /\ companies' = <<>>
    /\ pc' = "tool_loop"
    /\ UNCHANGED <<all_content, extract_outcome, extracted_tools, state_analysis, scrape_log,
                   llm_calls>>
    /\ UNCHANGED engine_vars

\* ResearchSkipTool that appends a record without analysis for the tool
ResearchSkipToolRecorded ==
    /\ pc = "tool_loop"
    /\ idx <= Len(tool_names)
    /\ \E answer \in ToolAnswers :
          /\ ResultsData(answer) = <<>>
          /\ search_log' = Append(search_log,
                 SearchCall("research", tool_names[idx] \o OfficialSiteSuffix, 1,
                            answer))
    /\ companies' = Append(companies,
           [name |-> tool_names[idx],
            website |-> <<>>,
            competitors |-> <<>>,
            pricing_model |-> Unknown,
            is_open_source |-> "None",
            tech_stack |-> <<>>,
            description |-> <<>>,
            api_available |-> "None",
            language_support |-> <<>>,
            integration_capabilities |-> <<>>])
    /\ idx' = idx + 1
    /\ UNCHANGED <<pc, stages, all_content, extract_outcome, extracted_tools, tool_names,
                   state_analysis, scrape_log, llm_calls>>
    /\ UNCHANGED engine_vars

\* lines 245-250: the search of a tool that gives no result
ResearchSkipTool ==
    /\ pc = "tool_loop"
    /\ idx <= Len(tool_names)
    /\ \E answer \in ToolAnswers :
          /\ ResultsData(answer) = <<>>
          /\ search_log' = Append(search_log,
                 SearchCall("research", tool_names[idx] \o OfficialSiteSuffix, 1,
                            answer))
    /\ idx' = idx + 1
    /\ UNCHANGED <<pc, stages, all_content, extract_outcome, extracted_tools, tool_names,
                   companies, state_analysis, scrape_log, llm_calls>>
    /\ UNCHANGED engine_vars

\* ResearchTool with content = scraped.markdown: a scrape answer without a
\* str markdown raises
ResearchToolUnguarded ==
    /\ pc = "tool_loop"
    /\ idx <= Len(tool_names)
    /\ \E answer \in ToolAnswers, scraped \in ToolScrapes :
          /\ ResultsData(answer) # <<>>
          /\ search_log' = Append(search_log,
                 SearchCall("research", tool_names[idx] \o OfficialSiteSuffix, 1,
                            answer))
          /\ scrape_log' = Append(scrape_log,
                 ScrapeCall("research", ResultsData(answer)[1].url))
          /\ scraped_page' = scraped
          /\ content' = IF HasMarkdown(scraped) THEN scraped.markdown ELSE <<>>
          /\ pc' = IF HasMarkdown(scraped) THEN "analysis" ELSE "raised"
    /\ company_name' = tool_names[idx]
    /\ attempt' = 0
    /\ responses' = <<>>
    /\ analysis' = NoAnalysis
    /\ via' = "none"
    /\ UNCHANGED <<stages, all_content, extract_outcome, extracted_tools, tool_names, idx,
                   companies, state_analysis, llm_calls>>

\* lines 245-266: the search of a tool that gives a result, the scrape of its
\* page and the call of _analyze_company_content
ResearchTool ==
    /\ pc = "tool_loop"
    /\ idx <= Len(tool_names)
    /\ \E answer \in ToolAnswers, scraped \in ToolScrapes :
          /\ ResultsData(answer) # <<>>
          /\ search_log' = Append(search_log,
                 SearchCall("research", tool_names[idx] \o OfficialSiteSuffix, 1,
                            answer))
          /\ scrape_log' = Append(scrape_log,
                 ScrapeCall("research", ResultsData(answer)[1].url))
          /\ scraped_page' = scraped
          /\ content' = IF HasMarkdown(scraped) THEN scraped.markdown ELSE <<>>
    /\ company_name' = tool_names[idx]
    /\ attempt' = 0
    /\ responses' = <<>>
    /\ analysis' = NoAnalysis
    /\ via' = "none"
    /\ pc' = "analysis"
    /\ UNCHANGED <<stages, all_content, extract_outcome, extracted_tools, tool_names, idx,
                   companies, state_analysis, llm_calls>>

\* _analyze_company_content, lines 93-184: one pass of the retry loop, with
\* the model's answer drawn from answers
AnalyzeAttempt(answers) ==
    /\ pc = "analysis"
    /\ attempt < max_retries
    /\ \E response \in answers :
          \E pass \in {LoopPass(company_name, content, attempt, response)} :
              /\ responses' = Append(responses, response)
              /\ attempt' = IF pass.ctl = "continue" THEN attempt + 1 ELSE attempt
              /\ analysis' = pass.value
              /\ via' = pass.via
              /\ pc' = CASE pass.ctl = "return" -> "returned"
                         [] pass.ctl = "raise" -> "raised"
                         [] pass.ctl = "continue" /\ attempt + 1 < max_retries
                              -> "analysis"
                         [] OTHER -> "returned"
    /\ llm_calls' = llm_calls + 1
    /\ UNCHANGED <<company_name, content, scraped_page>>
    /\ UNCHANGED pipeline_vars

\* lines 268-276: the record of the tool, with the fields of the analysis;
\* the frame of the call of _analyze_company_content is gone, and the loop
\* is done with the scrape answer of the tool
ResearchAppend ==
    /\ pc = "returned"
    /\ stages # <<>>
    /\ IF analysis = NoAnalysis
       THEN /\ pc' = "raised"
            /\ UNCHANGED <<companies, idx>>
       ELSE /\ companies' = Append(companies,
                   [name |-> tool_names[idx],
                    website |-> scrape_log[Len(scrape_log)].url,
                    competitors |-> <<>>,
                    pricing_model |-> analysis.pricing_model,
                    is_open_source |-> analysis.is_open_source,
                    tech_stack |-> analysis.tech_stack,
                    description |-> analysis.description,
                    api_available |-> analysis.api_available,
                    language_support |-> analysis.language_support,
                    integration_capabilities |-> analysis.integration_capabilities])
            /\ idx' = idx + 1
            /\ pc' = "tool_loop"
    /\ company_name' = <<>>
    /\ content' = <<>>
    /\ attempt' = 0
    /\ responses' = <<>>
    /\ analysis' = NoAnalysis
    /\ via' = "none"
    /\ scraped_page' = Unscraped
    /\ UNCHANGED <<stages, all_content, extract_outcome, extracted_tools,
                   tool_names, state_analysis, search_log, scrape_log, llm_calls>>

\* ResearchReturn with the edge research -> END
ResearchReturnToEnd ==
    /\ pc = "tool_loop"
    /\ idx > Len(tool_names)
    /\ pc' = "done"
    /\ UNCHANGED <<stages, all_content, extract_outcome, extracted_tools,
                   tool_names, idx, companies, state_analysis, search_log,
                   scrape_log, llm_calls>>
    /\ UNCHANGED engine_vars

\* line 278: the loop is over
ResearchReturn ==
    /\ pc = "tool_loop"
    /\ idx > Len(tool_names)
    /\ pc' = "analyze"
    /\ UNCHANGED <<stages, all_content, extract_outcome, extracted_tools, tool_names, idx,
                   companies, state_analysis, search_log, scrape_log, llm_calls>>
    /\ UNCHANGED engine_vars

(***************************************************************************)
(* _analyze_step and the end of run                                        *)
(***************************************************************************)
\* AnalyzeStep that sends the recommendation prompt a second time
AnalyzeStepRetried ==
    /\ pc = "analyze"
    /\ stages' = Append(stages, "analyze")
    /\ llm_calls' = llm_calls + 2
    /\ \E response \in RecommendationResponses :
          IF response.raises
          THEN /\ pc' = "raised"
               /\ UNCHANGED state_analysis
          ELSE /\ pc' = "done"
               /\ state_analysis' = SomeText(response.content)
    /\ UNCHANGED <<all_content, extract_outcome, extracted_tools, tool_names, idx, companies,
                   search_log, scrape_log>>
    /\ UNCHANGED engine_vars

\* lines 280-299: the recommendation prompt; its answer is state.analysis
AnalyzeStep ==
    /\ pc = "analyze"
    /\ stages' = Append(stages, "analyze")
    /\ llm_calls' = llm_calls + 1
    /\ \E response \in RecommendationResponses :
          IF response.raises
          THEN /\ pc' = "raised"
               /\ UNCHANGED state_analysis
          ELSE /\ pc' = "done"
               /\ state_analysis' = SomeText(response.content)
    /\ UNCHANGED <<all_content, extract_outcome, extracted_tools, tool_names, idx, companies,
                   search_log, scrape_log>>
    /\ UNCHANGED engine_vars

Next ==
    \/ ExtractGather
    \/ ExtractInvoke
    \/ ResearchCandidates
    \/ ResearchDirectSearch
    \/ ResearchSkipTool
    \/ ResearchTool
    \/ AnalyzeAttempt(PipelineResponses)
    \/ ResearchAppend
    \/ ResearchReturn
    \/ AnalyzeStep

Spec ==
    Init /\ [][Next]_vars

(***************************************************************************)
(* _analyze_company_content on its own: a call with any name and content.  *)
(***************************************************************************)
EngineInit ==
    /\ pc = "analysis"
    /\ stages = <<>>
    /\ all_content = <<>>
    /\ extract_outcome = "none"
    /\ extracted_tools = <<>>
    /\ tool_names = <<>>
    /\ idx = 0
    /\ companies = <<>>
    /\ state_analysis = NoText
    /\ search_log = <<>>
    /\ scrape_log = <<>>
    /\ llm_calls = 0
    /\ \E call \in EngineCalls :
          /\ company_name = call[1]
          /\ content = call[2]
    /\ attempt = 0
    /\ responses = <<>>
    /\ analysis = NoAnalysis
    /\ via = "none"
    /\ scraped_page = Unscraped

EngineNext ==
    AnalyzeAttempt(EngineResponses)

EngineSpec ==
    EngineInit /\ [][EngineNext]_vars

(***************************************************************************)
(* The line filter of _extract_tools_step on its own: the response is      *)
(* given, the filter runs on it, and once more on the lines it gave.       *)
(***************************************************************************)
FilterInit ==
    /\ pc = "filter"
    /\ stages = <<>>
    /\ all_content = <<>>
    /\ extract_outcome = "none"
    /\ extracted_tools = <<>>
    /\ tool_names = <<>>
    /\ idx = 0
    /\ companies = <<>>
    /\ state_analysis = NoText
    /\ search_log = <<>>
    /\ scrape_log = <<>>
    /\ llm_calls = 0
    /\ company_name = <<>>
    /\ content = <<>>
    /\ attempt = 0
    /\ \E text \in FilterTexts : responses = <<TextResponse(text)>>
    /\ analysis = NoAnalysis
    /\ via = "none"
    /\ scraped_page = Unscraped

\* lines 67-85 on the response: extracted_tools is what the filter emits
ExtractFilter ==
    /\ pc = "filter"
    /\ extracted_tools' = ExtractToolNames(responses[1].content)
    /\ extract_outcome' = "returned"
    /\ pc' = "filtered"
    /\ UNCHANGED <<stages, all_content, tool_names, idx, companies,
                   state_analysis, search_log, scrape_log, llm_calls>>
    /\ UNCHANGED engine_vars

\* lines 67-85 on the lines emitted: tool_names is what the filter emits then
ExtractFilterAgain ==
    /\ pc = "filtered"
    /\ tool_names' = ExtractToolNames(JoinLines(extracted_tools))
    /\ pc' = "refiltered"
    /\ UNCHANGED <<stages, all_content, extract_outcome, extracted_tools, idx,
                   companies, state_analysis, search_log, scrape_log, llm_calls>>
    /\ UNCHANGED engine_vars

FilterNext ==
    \/ ExtractFilter
    \/ ExtractFilterAgain

FilterSpec ==
    FilterInit /\ [][FilterNext]_vars

(***************************************************************************)
(* _create_fallback_analysis on its own: a call with any name and content. *)
(***************************************************************************)
FallbackInit ==
    /\ pc = "fallback"
    /\ stages = <<>>
    /\ all_content = <<>>
    /\ extract_outcome = "none"
    /\ extracted_tools = <<>>
    /\ tool_names = <<>>
    /\ idx = 0
    /\ companies = <<>>
    /\ state_analysis = NoText
    /\ search_log = <<>>
    /\ scrape_log = <<>>
    /\ llm_calls = 0
    /\ company_name \in FallbackNames
    /\ content \in FallbackContents
    /\ attempt = 0
    /\ responses = <<>>
    /\ analysis = NoAnalysis
    /\ via = "none"
    /\ scraped_page = Unscraped

\* lines 186-225: the record built from the name and the content
CreateFallback ==
    /\ pc = "fallback"
    /\ analysis' = create_fallback_analysis(company_name, <<>>, content)
    /\ via' = "except"
    /\ pc' = "returned"
    /\ UNCHANGED <<company_name, content, attempt, responses, llm_calls, scraped_page>>
    /\ UNCHANGED pipeline_vars

FallbackSpec ==
    FallbackInit /\ [][CreateFallback]_vars

(***************************************************************************)
(* Properties of _analyze_company_content, checked under EngineSpec.       *)
(***************************************************************************)
\* the call has returned to its caller
Returned ==
    pc = "returned"

\* the last answer of the model within the call
LastResponse ==
    responses[Len(responses)]

\* a response whose text is empty after trimming
EmptyAfterTrim(response) ==
    /\ ~response.raises
    /\ response.is_str
    /\ \A i \in 1..Len(response.content) : response.content[i] = Ws

\* the fields of a CompanyAnalysis
AnalysisFields ==
    {"pricing_model", "is_open_source", "tech_stack", "description",
     "api_available", "language_support", "integration_capabilities"}

\* C1: whatever the model does on attempt 0 and attempt 1, the call never
\* ends by an exception, it has ended once two answers are in, and when it
\* has ended it has returned a record, not None
C1_AlwaysReturnsRecord ==
    /\ pc # "raised"
    /\ Len(responses) = 2 => Returned
    /\ Returned => /\ analysis # NoAnalysis
                   /\ DOMAIN analysis = AnalysisFields

\* the call raised on attempt 0, got unparsable JSON on attempt 1, and
\* returned a record
C1_Witness ==
    /\ Returned
    /\ Len(responses) = 2
    /\ responses[1].raises
    /\ responses[2] = TextResponse(<<LBrace, BadMembers, RBrace>>)
    /\ analysis # NoAnalysis

\* C2: a call issues at most 2 model invocations
C2_AtMostTwoInvocations ==
    /\ llm_calls <= 2
    /\ Len(responses) = llm_calls

\* a call that got text without braces twice has issued exactly 2 invocations
C2_Witness ==
    /\ Returned
    /\ llm_calls = 2
    /\ responses[1] = TextResponse(<<Prose>>)
    /\ responses[2] = TextResponse(<<Prose, RBrace>>)

\* C3: with an empty response on both attempts the call returns the
\* fallback record: description "<name> is a developer tool", pricing from
\* the content keywords, both optional booleans unset, by way of the except
\* clause and without an exception to the caller
C3_EmptyTwiceGivesFallback ==
    (/\ Len(responses) = 2
     /\ EmptyAfterTrim(responses[1])
     /\ EmptyAfterTrim(responses[2]))
    => /\ Returned
       /\ via = "except"
       /\ analysis # NoAnalysis
       /\ analysis.description = company_name \o DeveloperToolSuffix
       /\ analysis.pricing_model = FallbackPricing(content)
       /\ analysis.is_open_source = "None"
       /\ analysis.api_available = "None"

\* the call for "Tabnine" with content "Contact Sales" got "" and then white
\* space, and returned the fallback record with pricing Enterprise
C3_Witness ==
    /\ Returned
    /\ responses = <<TextResponse(<<>>), TextResponse(<<Ws>>)>>
    /\ content = <<"C", "o", "n", "t", "a", "c", "t", " ", "S", "a", "l", "e", "s">>
    /\ analysis.pricing_model = Enterprise
    /\ analysis.description =
          <<"T", "a", "b", "n", "i", "n", "e">> \o DeveloperToolSuffix

Acceptable(data) ==
    /\ \/ data["pricing_model"].k = "absent"
       \/ /\ data["pricing_model"].k = "str"
          /\ data["pricing_model"].s \in PricingModels
    /\ data["description"].k \in {"absent", "str"}
    /\ \A f \in BoolFields : data[f].k \in {"absent", "null", "true", "false", "str"}
    /\ \A f \in ListFields :
          data[f].k = "list" => \A i \in 1..Len(data[f].items) : data[f].items[i].k = "str"

\* the last answer is the bare text of the acceptable object data
LastAnswerIs(data) ==
    /\ responses # <<>>
    /\ LastResponse = TextResponse(ObjectText(data))
    /\ Acceptable(data)

\* the list a list field is expected to hold for the JSON value v
ExpectedList(v) ==
    IF v.k = "list" THEN [i \in 1..Len(v.items) |-> v.items[i].s] ELSE <<>>

\* C5: the three list fields of a returned record are lists; on a successful
\* parse a key that is missing or holds no list gives the empty list, and
\* the fallback sets lists
C5_ListsAreLists ==
    (Returned /\ analysis # NoAnalysis)
    => /\ \A f \in ListFields : DOMAIN analysis[f] = 1..Len(analysis[f])
       /\ \A data \in ObjectSamples :
             LastAnswerIs(data)
             => /\ via = "parsed"
                /\ \A f \in ListFields : analysis[f] = ExpectedList(data[f])

\* the last answer had tech_stack null, and the parsed record has tech_stack []
C5_Witness ==
    /\ Returned
    /\ via = "parsed"
    /\ LastResponse = TextResponse(ObjectText([BaseData EXCEPT !["tech_stack"] = JNull]))
    /\ analysis.tech_stack = <<>>
    /\ analysis.language_support = <<Rust>>

\* the value an optional boolean is expected to hold for the JSON value v
ExpectedBool(v) ==
    CASE v.k = "true" -> "True"
      [] v.k = "false" -> "False"
      [] v.k = "str" /\ v.s \in {TrueText, TrueUpper} -> "True"
      [] v.k = "str" /\ v.s \in {FalseText, FalseMixed} -> "False"
      [] OTHER -> "None"

\* C6: is_open_source and api_available of a returned record are True,
\* False or None; on a successful parse a string equal to "true" or "false"
\* whatever its case gives the boolean and any other string None, and the
\* fallback leaves both None
C6_BoolsAreBoolOrUnset ==
    (Returned /\ analysis # NoAnalysis)
    => /\ \A f \in BoolFields : analysis[f] \in {"True", "False", "None"}
       /\ via \in {"except", "no_json"} => \A f \in BoolFields : analysis[f] = "None"
       /\ \A data \in ObjectSamples :
             LastAnswerIs(data)
             => /\ via = "parsed"
                /\ \A f \in BoolFields : analysis[f] = ExpectedBool(data[f])

\* the last answer had is_open_source "TRUE", and the parsed record has True
C6_Witness ==
    /\ Returned
    /\ via = "parsed"
    /\ LastResponse =
          TextResponse(ObjectText([BaseData EXCEPT !["is_open_source"] = JStr(TrueUpper)]))
    /\ analysis.is_open_source = "True"

(***************************************************************************)
(* Properties of a run, checked under Spec.                                *)
(***************************************************************************)
ThreeStages ==
    <<"extract_tools", "research", "analyze">>

IsToolSearch(call) ==
    call.stage = "research"

IsDirectSearch(call) ==
    call.stage = "research_direct"

IsResearchScrape(call) ==
    call.stage = "research"

\* the searches of single tools so far, and the direct searches so far
ToolSearches ==
    SelectSeq(search_log, IsToolSearch)

DirectSearches ==
    SelectSeq(search_log, IsDirectSearch)

\* the research stage has begun; it is over
ResearchBegun ==
    Len(stages) >= 2

ResearchOver ==
    pc \in {"analyze", "done"} \/ Len(stages) = 3

\* the run has ended, by a result or by an exception
Ended ==
    pc \in {"done", "raised"}

\* the run can take a step
CanStep ==
    ENABLED Next

\* a bound on the steps the run has left: the stages to come, the tools to
\* come in the loop of the research stage, the steps to come for the tool
Rank ==
    CASE pc = "extract_tools" -> 500
      [] pc = "extract_llm" -> 400
      [] pc = "research" -> 300
      [] pc = "tool_loop" -> 200 + 4 * (Len(tool_names) + 1 - idx) + 3
      [] pc = "analysis" -> 200 + 4 * (Len(tool_names) + 1 - idx) + 2 - attempt
      [] pc = "returned" -> 200 + 4 * (Len(tool_names) + 1 - idx)
      [] pc = "analyze" -> 100
      [] OTHER -> 0

\* C7: with n >= 1 candidates the research stage searches the first
\* min(n, 4) of them, each once as "<name> official site" with one result
\* asked for, in their order; it searches, scrapes and analyses no other
C7_FirstFourSearched ==
    extracted_tools # <<>>
    => LET n == IF Len(extracted_tools) < 4 THEN Len(extracted_tools) ELSE 4
       IN  /\ DirectSearches = <<>>
           /\ Len(ToolSearches) <= n
           /\ \A i \in 1..Len(ToolSearches) :
                 /\ ToolSearches[i].query = extracted_tools[i] \o OfficialSiteSuffix
                 /\ ToolSearches[i].num_results = 1
           /\ ResearchOver => Len(ToolSearches) = n
           /\ Len(SelectSeq(scrape_log, IsResearchScrape)) <= Len(ToolSearches)
           /\ pc \in {"analysis", "returned"}
                 => /\ idx = Len(ToolSearches)
                    /\ company_name = extracted_tools[idx]
           /\ Len(companies) <= Len(ToolSearches)

\* of 5 candidates the research stage has searched 4 and is over
C7_Witness ==
    /\ pc = "analyze"
    /\ Len(extracted_tools) = 5
    /\ Len(ToolSearches) = 4
    /\ Len(companies) = 4

\* the article search of the extraction stage gave no result
NoArticleFound ==
    /\ search_log # <<>>
    /\ search_log[1].stage = "extract_tools"
    /\ search_log[1].hits = 0

\* C8 as stated: after an article search without result the research stage
\* falls back to the direct search of the raw query
C8_AlwaysDirectSearch ==
    (NoArticleFound /\ ResearchBegun) => DirectSearches # <<>>

\* what holds of a run whose article search gave no result
C8_State ==
    /\ ResearchBegun => (DirectSearches # <<>> <=> extracted_tools = <<>>)
    /\ Len(DirectSearches) <= 1
    /\ \A i \in 1..Len(DirectSearches) :
          /\ DirectSearches[i].query = Query
          /\ DirectSearches[i].num_results = 4
    /\ pc = "raised" => (stages = ThreeStages /\ state_analysis = NoText)
    /\ pc = "done" => /\ stages = ThreeStages
                      /\ state_analysis.some
                      /\ Len(companies) <= Len(tool_names)
    /\ ~Ended => CanStep

\* C8, amended: a run whose article search gives no result goes on until
\* it ends; the research stage falls back to the direct search exactly when
\* the extraction stage yields no candidate, and the run returns a result
\* with a recommendation that is not None unless the generation call of the
\* analyze stage raises
C8_CompletesWithoutArticles ==
    NoArticleFound => C8_State

\* a run without article and without direct search result has returned a
\* result with no company and a recommendation
C8_Witness ==
    /\ pc = "done"
    /\ NoArticleFound
    /\ Len(DirectSearches) = 1
    /\ DirectSearches[1].hits = 0
    /\ companies = <<>>
    /\ state_analysis.some

\* stages is ThreeStages up to the stage the run is in
StagesInOrder ==
    /\ Len(stages) <= 3
    /\ stages = SubSeq(ThreeStages, 1, Len(stages))
    /\ Len(stages) = CASE pc = "extract_tools" -> 0
                       [] pc = "extract_llm" -> 1
                       [] pc = "research" -> 1
                       [] pc \in {"tool_loop", "analysis", "returned", "analyze"} -> 2
                       [] pc = "done" -> 3
                       [] OTHER -> Len(stages)

\* C9: a run enters extract_tools, research and analyze in this order, each
\* once; every step brings it nearer to its end, it stops nowhere but at
\* its end, and it ends after these three stages
C9_ThreeStagesInOrder ==
    /\ [](StagesInOrder /\ (Ended => stages = ThreeStages) /\ (~Ended => CanStep))
    /\ [][Rank' < Rank]_vars

\* the run has returned after the three stages
C9_Witness ==
    /\ pc = "done"
    /\ stages = ThreeStages
    /\ companies # <<>>

\* a failure of a collaborator that a stage before analyze has met
FailureAbsorbed ==
    \/ extract_outcome = "raised"
    \/ pc = "returned" /\ via \in {"except", "no_json"}
    \/ \E i \in 1..Len(search_log) : search_log[i].hits = 0

\* C10: the run raises only when the generation call of the analyze stage
\* raises; after a failure of a generation call, a search or a scrape in
\* the extraction or the research stage the run goes on to analyze
C10_OnlyAnalyzeRaises ==
    /\ pc = "raised" => (stages = ThreeStages /\ state_analysis = NoText)
    /\ (FailureAbsorbed /\ Len(stages) < 3) => (pc # "raised" /\ CanStep)

\* the extraction call raised, a tool had no search result, another got the
\* fallback record, and the run has returned
C10_Witness ==
    /\ pc = "done"
    /\ extract_outcome = "raised"
    /\ \E i \in 1..Len(search_log) :
          search_log[i].stage = "research" /\ search_log[i].hits = 0
    /\ \E i \in 1..Len(companies) :
          companies[i].description = companies[i].name \o DeveloperToolSuffix

(***************************************************************************)
(* Properties of the line filter, checked under FilterSpec.                *)
(***************************************************************************)
\* the name PlanetScale
PlanetScale ==
    <<"P", "l", "a", "n", "e", "t", "S", "c", "a", "l", "e">>

\* the text the filter is given
FilterInput ==
    responses[1].content

\* the lines of the text, each trimmed
TrimmedLines ==
    LET lines == SplitLines(FilterInput)
    IN  [i \in 1..Len(lines) |-> Strip(lines[i])]

\* the four rules, on a trimmed non-empty line
BreaksPreamble(line) ==
    Len(line) >= 8 /\ Lower(SubSeq(line, 1, 8)) = <<"h", "e", "r", "e", " ", "a", "r", "e">>

BreaksNumbered(line) ==
    /\ line[1] \in {"0", "1", "2", "3", "4", "5", "6", "7", "8", "9"}
    /\ \E i \in 1..Len(line) : line[i] = "."

StopWords ==
    {<<"t", "o", "p">>, <<"m", "e", "n", "t", "i", "o", "n", "e", "d">>,
     <<"a", "l", "t", "e", "r", "n", "a", "t", "i", "v", "e", "s">>,
     <<"t", "o", "o", "l", "s">>, <<"s", "u", "m", "m", "a", "r", "y">>,
     <<"a", "r", "t", "i", "c", "l", "e">>, <<"c", "o", "n", "t", "e", "n", "t">>}

BreaksStopWord(line) ==
    \E w \in StopWords : \E i \in 1..(Len(line) - Len(w) + 1) :
        Lower(SubSeq(line, i, i + Len(w) - 1)) = w

\* the tokens of a line: its maximal runs of characters that are no white space
TokenEnds(line) ==
    {i \in 1..Len(line) :
        line[i] \notin {" ", "\t", "\n", "\r"}
        /\ (i = Len(line) \/ line[i + 1] \in {" ", "\t", "\n", "\r"})}

BreaksTokens(line) ==
    Cardinality(TokenEnds(line)) > 5

\* the positions of the lines that are to be emitted, in order
EmittedPositions ==
    {i \in 1..Len(TrimmedLines) :
        /\ TrimmedLines[i] # <<>>
        /\ ~BreaksPreamble(TrimmedLines[i])
        /\ ~BreaksNumbered(TrimmedLines[i])
        /\ ~BreaksStopWord(TrimmedLines[i])
        /\ ~BreaksTokens(TrimmedLines[i])}

\* the k-th smallest element of a set of numbers
RECURSIVE Nth(_, _)
Nth(S, k) ==
    IF k = 1 THEN SetMin(S) ELSE Nth(S \ {SetMin(S)}, k - 1)

C12_FilterIdempotent ==
    pc = "refiltered" => tool_names = extracted_tools

\* the filter has dropped a line of the response, kept and trimmed the
\* other, and has run again on what it kept
C12_Witness ==
    /\ pc = "refiltered"
    /\ Len(TrimmedLines) = 2
    /\ Len(extracted_tools) = 1
    /\ extracted_tools[1] # SplitLines(FilterInput)[2]
    /\ tool_names = extracted_tools

(***************************************************************************)
(* More properties of _analyze_company_content, checked under EngineSpec.  *)
(***************************************************************************)
\* the object of the prompt's example between ```json and ```, with and
\* without line breaks inside the fences
FencedAnswers ==
    {TextResponse(<<Fence, JsonWord, Ws>> \o ObjectText(BaseData) \o <<Ws, Fence>>),
     TextResponse(<<Fence, JsonWord>> \o ObjectText(BaseData) \o <<Fence>>)}

\* C13: an answer that is a valid JSON object between a leading ```json
\* fence and a trailing ``` fence has both fences stripped and is parsed:
\* the call returns on that very attempt the record of the object (pricing
\* "Free" for "pricing_model": "Free"), with no retry and no fallback.
C13_FencedObjectParsed ==
    \A i \in 1..Len(responses) :
        responses[i] \in FencedAnswers
        => /\ i = Len(responses)
           /\ llm_calls = i
           /\ Returned
           /\ via = "parsed"
           /\ analysis # NoAnalysis
           /\ analysis.pricing_model = Free
           /\ analysis.tech_stack = <<Rust>>
           /\ analysis.description # company_name \o DeveloperToolSuffix

\* the first answer was the fenced object, and the call has returned its record
C13_Witness ==
    /\ Returned
    /\ Len(responses) = 1
    /\ responses[1] = TextResponse(<<Fence, JsonWord, Ws>> \o ObjectText(BaseData) \o <<Ws, Fence>>)
    /\ via = "parsed"
    /\ analysis.pricing_model = Free

\* the answers from which a record can be built: an acceptable object, bare,
\* or within white space, fences or prose that the slicing removes
GoodAnswers ==
    {TextResponse(ObjectText(data)) : data \in {d \in ObjectSamples : Acceptable(d)}}
    \cup {TextResponse(<<LBrace, RBrace>>),
          TextResponse(<<Ws>> \o ObjectText(BaseData) \o <<Ws>>),
          TextResponse(<<Fence, Ws>> \o ObjectText(BaseData) \o <<Ws, Fence>>),
          TextResponse(<<Prose, Ws>> \o ObjectText(BaseData) \o <<Ws, Prose>>)}
    \cup FencedAnswers

\* the ways an attempt fails: the invocation raises (or gives no text), the
\* text is empty after trimming, it lacks "{" or "}", it does not parse, or
\* the record cannot be built from the object
RaisedAnswers ==
    {RaisingResponse, NonStringResponse}

EmptyAnswers ==
    {TextResponse(<<>>), TextResponse(<<Ws>>)}

BracelessAnswers ==
    {TextResponse(<<Prose>>), TextResponse(<<Fence>>), TextResponse(<<Fence, JsonWord>>),
     TextResponse(<<Fence, JsonWord, Ws, Fence>>), TextResponse(<<Prose, LBrace>>),
     TextResponse(<<Prose, RBrace>>)}

UnparsableAnswers ==
    {TextResponse(<<RBrace, Prose, LBrace>>), TextResponse(<<LBrace, BadMembers, RBrace>>),
     TextResponse(<<Fence, JsonWord, Ws, LBrace, BadMembers, RBrace, Ws, Fence>>),
     TextResponse(ObjectText(BaseData) \o <<Ws, Prose>>),
     TextResponse(<<Prose>> \o ObjectText(BaseData) \o <<Prose>> \o ObjectText(BaseData))}

UnbuildableAnswers ==
    {TextResponse(ObjectText(data)) : data \in {d \in ObjectSamples : ~Acceptable(d)}}

FailedAnswers ==
    RaisedAnswers \cup EmptyAnswers \cup BracelessAnswers \cup UnparsableAnswers
    \cup UnbuildableAnswers

\* the record of _create_fallback_analysis, as far as the content of the
\* page does not matter
IsFallback(record) ==
    /\ record # NoAnalysis
    /\ record.description = company_name \o DeveloperToolSuffix
    /\ record.tech_stack = <<>>

\* C14: the second invocation of the model is made exactly when the first
\* attempt failed (it raised, gave an empty text, a text without "{" or "}",
\* a text that does not parse, or an object no record can be built from); a
\* first attempt that succeeds returns after exactly one invocation; and a
\* second attempt that fails, in whichever way, returns the fallback record.
C14_SecondAttemptIffFirstFailed ==
    /\ \A i \in 1..Len(responses) : responses[i] \in GoodAnswers \cup FailedAnswers
    /\ GoodAnswers \cap FailedAnswers = {}
    /\ llm_calls = Len(responses)
    /\ Len(responses) >= 1 =>
          /\ responses[1] \in GoodAnswers
                => /\ Len(responses) = 1
                   /\ Returned
                   /\ via = "parsed"
                   /\ ~IsFallback(analysis)
          /\ responses[1] \in FailedAnswers
                => \/ Len(responses) = 2
                   \/ /\ Len(responses) = 1
                      /\ pc = "analysis"
                      /\ attempt = 1
    /\ Len(responses) = 2 =>
          /\ responses[1] \in FailedAnswers
          /\ Returned
          /\ responses[2] \in FailedAnswers => IsFallback(analysis)
          /\ responses[2] \in GoodAnswers => via = "parsed"

\* the first attempt gave an object with a pricing model outside the enum,
\* the second invocation raised, and the call has returned the fallback
C14_Witness ==
    /\ Returned
    /\ Len(responses) = 2
    /\ responses[1] \in UnbuildableAnswers
    /\ responses[2] = RaisingResponse
    /\ IsFallback(analysis)

(***************************************************************************)
(* Properties of _create_fallback_analysis, checked under FallbackSpec.    *)
(***************************************************************************)
\* the keyword occurs in the text, whatever the case of the text
Occurs(keyword, text) ==
    \E i \in 1..(Len(text) - Len(keyword) + 1) :
        Lower(SubSeq(text, i, i + Len(keyword) - 1)) = keyword

\* the keyword groups, in their order
KeywordGroups ==
    <<[pricing |-> <<"F", "r", "e", "e">>,
       keywords |-> {<<"f", "r", "e", "e">>, <<"$", "0">>,
                     <<"n", "o", " ", "c", "o", "s", "t">>}],
      [pricing |-> <<"F", "r", "e", "e", "m", "i", "u", "m">>,
       keywords |-> {<<"f", "r", "e", "e", "m", "i", "u", "m">>,
                     <<"f", "r", "e", "e", " ", "t", "i", "e", "r">>,
                     <<"f", "r", "e", "e", " ", "p", "l", "a", "n">>}],
      [pricing |-> <<"E", "n", "t", "e", "r", "p", "r", "i", "s", "e">>,
       keywords |-> {<<"e", "n", "t", "e", "r", "p", "r", "i", "s", "e">>,
                     <<"c", "o", "n", "t", "a", "c", "t", " ", "s", "a", "l", "e", "s">>}],
      [pricing |-> <<"P", "a", "i", "d">>,
       keywords |-> {<<"$">>, <<"p", "r", "i", "c", "e">>, <<"p", "a", "i", "d">>,
                     <<"s", "u", "b", "s", "c", "r", "i", "p", "t", "i", "o", "n">>}]>>

\* the groups one of whose keywords occurs in the text
MatchingGroups(text) ==
    {g \in 1..Len(KeywordGroups) : \E k \in KeywordGroups[g].keywords : Occurs(k, text)}

\* the pricing of the first matching group, Unknown when none matches
ExpectedPricing(text) ==
    The({IF groups = {} THEN <<"U", "n", "k", "n", "o", "w", "n">>
         ELSE KeywordGroups[SetMin(groups)].pricing : groups \in {MatchingGroups(text)}})

\* C15: the fallback pricing comes from the first keyword group, in the
\* order Free, Freemium, Enterprise, Paid, one of whose keywords occurs, in
\* any case, in the full content (not only in its first 2000 characters),
\* and is Unknown when no keyword occurs.
C15_FallbackPricingFirstGroup ==
    Returned => analysis.pricing_model = ExpectedPricing(content)

\* the content shows "price" within its first 2000 characters and "FREE"
\* after them, and the fallback has given Free
C15_Witness ==
    /\ Returned
    /\ Len(content) > PromptLimit
    /\ MatchingGroups(PromptContent(content)) = {4}
    /\ analysis.pricing_model = Free

\* the lists of the name heuristics
ListForGithub ==
    <<<<"G", "i", "t", "H", "u", "b">>,
      <<"V", "S", " ", "C", "o", "d", "e">>>>

ListForCopilot ==
    <<<<"P", "y", "t", "h", "o", "n">>,
      <<"J", "a", "v", "a", "S", "c", "r", "i", "p", "t">>,
      <<"T", "y", "p", "e", "S", "c", "r", "i", "p", "t">>>>

ListForCursor ==
    <<<<"V", "S", " ", "C", "o", "d", "e">>>>

ListForTabnine ==
    <<<<"V", "S", " ", "C", "o", "d", "e">>,
      <<"I", "n", "t", "e", "l", "l", "i", "J">>,
      <<"S", "u", "b", "l", "i", "m", "e", " ", "T", "e", "x", "t">>>>

\* the name of the call holds the word, whatever its case
NameHolds(word) ==
    Occurs(word, company_name)

WordGithub ==
    <<"g", "i", "t", "h", "u", "b">>

WordCopilot ==
    <<"c", "o", "p", "i", "l", "o", "t">>

WordCursor ==
    <<"c", "u", "r", "s", "o", "r">>

WordTabnine ==
    <<"t", "a", "b", "n", "i", "n", "e">>

\* C16 as stated: in a fallback record, for every tool name, a name that
\* holds "github" gets the integrations [GitHub, VS Code], one that holds
\* "copilot" the languages [Python, JavaScript, TypeScript], one that holds
\* "cursor" the integrations [VS Code], one that holds "tabnine" the
\* integrations [VS Code, IntelliJ, Sublime Text], and a name that holds
\* none of them gets empty lists.
C16_EveryNameSeeded ==
    Returned =>
        /\ NameHolds(WordGithub) => analysis.integration_capabilities = ListForGithub
        /\ NameHolds(WordCopilot) => analysis.language_support = ListForCopilot
        /\ NameHolds(WordCursor) => analysis.integration_capabilities = ListForCursor
        /\ NameHolds(WordTabnine) => analysis.integration_capabilities = ListForTabnine
        /\ (~NameHolds(WordGithub) /\ ~NameHolds(WordCopilot)
              /\ ~NameHolds(WordCursor) /\ ~NameHolds(WordTabnine))
           => /\ analysis.integration_capabilities = <<>>
              /\ analysis.language_support = <<>>

\* C16, amended: in a fallback record the integrations are those of the
\* last of "github", "cursor", "tabnine" (in this order) that the name
\* holds, and empty when it holds none; the languages are [Python,
\* JavaScript, TypeScript] when the name holds "copilot" and empty
\* otherwise; the tech stack is empty.
C16_LastHeuristicWins ==
    Returned =>
        /\ analysis.integration_capabilities =
              IF NameHolds(WordTabnine) THEN ListForTabnine
              ELSE IF NameHolds(WordCursor) THEN ListForCursor
              ELSE IF NameHolds(WordGithub) THEN ListForGithub
              ELSE <<>>
        /\ analysis.language_support =
              IF NameHolds(WordCopilot) THEN ListForCopilot ELSE <<>>
        /\ analysis.tech_stack = <<>>

\* the name holds "github" and "cursor", and the fallback record has the
\* integrations of "cursor" alone
C16_Witness ==
    /\ Returned
    /\ NameHolds(WordGithub)
    /\ NameHolds(WordCursor)
    /\ ~NameHolds(WordTabnine)
    /\ analysis.integration_capabilities = ListForCursor

(***************************************************************************)
(* The numbered-list rule of the line filter, checked under FilterSpec.    *)
(***************************************************************************)
\* the trimmed non-empty lines of the text that break none of the rules
\* other than the numbered-list rule
LinesUnderNumberedRule ==
    {TrimmedLines[i] : i \in {j \in 1..Len(TrimmedLines) :
        /\ TrimmedLines[j] # <<>>
        /\ ~BreaksPreamble(TrimmedLines[j])
        /\ ~BreaksStopWord(TrimmedLines[j])
        /\ ~BreaksTokens(TrimmedLines[j])}}

\* the lines the filter emitted
EmittedLines ==
    {extracted_tools[k] : k \in 1..Len(extracted_tools)}

DigitFirst(line) ==
    line[1] \in {"0", "1", "2", "3", "4", "5", "6", "7", "8", "9"}

\* the line begins with a digit immediately followed by "."
MarkerFirst(line) ==
    DigitFirst(line) /\ Len(line) >= 2 /\ line[2] = "."

HoldsDot(line) ==
    \E i \in 1..Len(line) : line[i] = "."

\* C17 as stated: the numbered-list rule discards a line exactly when the
\* line begins with a digit immediately followed by ".": a line that starts
\* with a digit whose next character is not "." and that breaks no other
\* rule is emitted.
C17_DiscardsOnlyMarker ==
    pc = "filtered" =>
        \A line \in LinesUnderNumberedRule :
            line \in EmittedLines <=> ~MarkerFirst(line)

\* C17, amended: the numbered-list rule discards a line exactly when the
\* line begins with a digit and holds a "." anywhere: of the lines that
\* break no other rule, one that starts with a digit and holds a "." is not
\* emitted, wherever the "." is, and one that starts with no digit or holds
\* no "." is emitted.
C17_DiscardsDigitWithDot ==
    pc = "filtered" =>
        \A line \in LinesUnderNumberedRule :
            line \in EmittedLines <=> ~(DigitFirst(line) /\ HoldsDot(line))

\* the response had a line with a digit first and a "." further on and a
\* line with a digit first and no ".", and the filter has emitted the
\* second alone
C17_Witness ==
    /\ pc = "filtered"
    /\ Len(TrimmedLines) = 2
    /\ TrimmedLines[1] # <<>> /\ TrimmedLines[2] # <<>>
    /\ DigitFirst(TrimmedLines[1]) /\ HoldsDot(TrimmedLines[1])
    /\ ~MarkerFirst(TrimmedLines[1])
    /\ DigitFirst(TrimmedLines[2]) /\ ~HoldsDot(TrimmedLines[2])
    /\ extracted_tools = <<TrimmedLines[2]>>

(***************************************************************************)
(* More properties of a run, checked under Spec.                           *)
(***************************************************************************)
\* the tool name the direct search gives for a result
NameOfResult(result) ==
    IF result.has_title THEN result.title ELSE <<"U", "n", "k", "n", "o", "w", "n">>

\* C18: the research stage issues the direct search of the raw query, with
\* 4 results asked for, exactly when the candidate list it receives is
\* empty, and then once; the tool names are then the titles of the results,
\* "Unknown" for a result without title.  The candidate list is empty
\* whenever the model invocation of the extraction stage raised, so that a
\* run whose extraction call raised goes on to the direct search.
C18_DirectSearchIffNoCandidate ==
    /\ ~ResearchBegun => DirectSearches = <<>>
    /\ ResearchBegun => (Len(DirectSearches) = 1 <=> extracted_tools = <<>>)
    /\ Len(DirectSearches) <= 1
    /\ \A i \in 1..Len(DirectSearches) :
          /\ DirectSearches[i].query = Query
          /\ DirectSearches[i].num_results = 4
          /\ tool_names = [k \in 1..Len(DirectSearches[i].results) |->
                              NameOfResult(DirectSearches[i].results[k])]
    /\ extract_outcome = "raised" =>
          /\ extracted_tools = <<>>
          /\ pc = "research" \/ Len(DirectSearches) = 1
    /\ (pc = "research" /\ extracted_tools = <<>>) => ENABLED ResearchDirectSearch

\* the extraction call raised, the direct search gave a result without
\* title and a result with one, and the run has ended with a result
C18_Witness ==
    /\ pc = "done"
    /\ extract_outcome = "raised"
    /\ Len(DirectSearches) = 1
    /\ DirectSearches[1].hits = 2
    /\ tool_names = <<UnknownTitle, ToolTitle>>

FoundTools ==
    {i \in 1..Len(ToolSearches) : ToolSearches[i].hits > 0}

\* the tool whose search gave a result is still being scraped and analysed
ToolInProgress ==
    pc \in {"analysis", "returned"}

\* the scrapes of the research stage so far
ResearchScrapes ==
    SelectSeq(scrape_log, IsResearchScrape)

\* the model invocations of the research stage so far
ResearchInvocations ==
    llm_calls - 1 - (IF Len(stages) = 3 THEN 1 ELSE 0)

\* what holds of the research stage in every state
C20_State ==
    ResearchBegun =>
        /\ \A i \in 1..Len(ToolSearches) :
              ToolSearches[i].query = tool_names[i] \o OfficialSiteSuffix
        /\ Len(ResearchScrapes) = Cardinality(FoundTools)
        /\ Len(companies) =
              Cardinality(FoundTools) - (IF ToolInProgress THEN 1 ELSE 0)
        /\ \A k \in 1..Len(companies) :
              companies[k].name = tool_names[Nth(FoundTools, k)]
        /\ ResearchInvocations >= Len(companies)
        /\ ResearchInvocations <= 2 * Cardinality(FoundTools)

\* the step is the search of a tool, and the search gave no result
SkipStep ==
    /\ Len(search_log') = Len(search_log) + 1
    /\ search_log'[Len(search_log')].stage = "research"
    /\ search_log'[Len(search_log')].hits = 0

\* C20: in the research stage a tool whose search gives no result, or the
\* shape of an error without result list, causes no scrape, no model
\* invocation and no record; every other tool yields one record with its
\* name, so that companies is a subsequence of the tool names in their
\* order, with one record per tool that had a search result.
C20_SkippedToolLeavesNoTrace ==
    /\ []C20_State
    /\ [][SkipStep => /\ scrape_log' = scrape_log
                      /\ llm_calls' = llm_calls
                      /\ companies' = companies
                      /\ idx' = idx + 1
                      /\ pc' = "tool_loop"]_vars

\* of three tools the second had no search result, and the run has ended
\* with the records of the first and the third
C20_Witness ==
    /\ pc = "done"
    /\ Len(tool_names) = 3
    /\ FoundTools = {1, 3}
    /\ Len(companies) = 2
    /\ companies[1].name = tool_names[1]
    /\ companies[2].name = tool_names[3]
    /\ Len(ResearchScrapes) = 2

\* the scrape gave nothing, or a page without a markdown body that is a str
NoBody(page) ==
    page.is_none \/ ~page.has_markdown \/ ~page.is_str

\* what holds of the tool in hand in every state
C21_State ==
    /\ Len(stages) = 2 => pc # "raised"
    /\ ToolInProgress =>
          /\ scraped_page # Unscraped
          /\ company_name = tool_names[idx]
          /\ NoBody(scraped_page) => content = <<>>
          /\ pc = "analysis" => ENABLED AnalyzeAttempt(PipelineResponses)
          /\ pc = "returned" => (responses # <<>> /\ analysis # NoAnalysis)

\* the step is the scrape of the page of a tool
ScrapeStep ==
    /\ pc = "tool_loop"
    /\ Len(scrape_log') = Len(scrape_log) + 1

\* C21: in the research stage a scrape that returns nothing, or a page
\* without a markdown body that is a str, counts as empty content and never
\* ends the run: _analyze_company_content is still called for the tool,
\* with the content "", and a record of the tool is still appended to
\* companies.
C21_EmptyScrapeStillAnalysed ==
    /\ []C21_State
    /\ [][ScrapeStep => /\ pc' = "analysis"
                        /\ company_name' = tool_names[idx]
                        /\ NoBody(scraped_page') => content' = <<>>]_vars
    /\ [][pc = "returned" => /\ Len(companies') = Len(companies) + 1
                             /\ companies'[Len(companies')].name = company_name
                             /\ pc' = "tool_loop"]_vars

\* the scrape of the second tool returned nothing, the tool has been
\* analysed with the content "" and its record is about to be appended to
\* the record of the first
C21_Witness ==
    /\ pc = "returned"
    /\ idx = 2
    /\ scraped_page = ScrapedNone
    /\ content = <<>>
    /\ company_name = tool_names[2]
    /\ responses # <<>>
    /\ analysis # NoAnalysis
    /\ Len(companies) = 1

(***************************************************************************)
(* More properties of _create_fallback_analysis, checked under             *)
(* FallbackSpec.                                                           *)
(***************************************************************************)
\* the pricing models other than Freemium
PricingButFreemium ==
    {<<"F", "r", "e", "e">>, <<"E", "n", "t", "e", "r", "p", "r", "i", "s", "e">>,
     <<"P", "a", "i", "d">>, <<"U", "n", "k", "n", "o", "w", "n">>}

\* C22: the fallback never gives the pricing model Freemium: each keyword
\* of the Freemium test ("freemium", "free tier", "free plan") holds "free",
\* a keyword of the earlier Free test, so that for every content the
\* fallback pricing is one of Free, Enterprise, Paid, Unknown.
C22_FallbackNeverFreemium ==
    /\ \A keyword \in FreemiumKeywords :
          /\ Occurs(<<"f", "r", "e", "e">>, keyword)
          /\ <<"f", "r", "e", "e">> \in FreeKeywords
    /\ Returned =>
          /\ analysis.pricing_model \in PricingButFreemium
          /\ 2 \in MatchingGroups(content)
                => analysis.pricing_model = <<"F", "r", "e", "e">>

\* the content holds a keyword of the Freemium test, and the fallback has
\* given Free
C22_Witness ==
    /\ Returned
    /\ Occurs(<<"f", "r", "e", "e", "m", "i", "u", "m">>, content)
    /\ analysis.pricing_model = Free

(***************************************************************************)
(* The model invocations of a run, checked under Spec.                     *)
(***************************************************************************)
\* the invocations of the extraction stage and of the analyze stage so far
ExtractionInvocations ==
    IF pc \in {"extract_tools", "extract_llm"} THEN 0 ELSE 1

AnalyzeInvocations ==
    IF Len(stages) = 3 THEN 1 ELSE 0

\* the tools with a search result that the loop is done with
ToolsDone ==
    Cardinality(FoundTools) - (IF ToolInProgress THEN 1 ELSE 0)

\* what holds of the count of invocations in every state
C23_State ==
    /\ llm_calls <= 2 + 2 * Cardinality(FoundTools)
    /\ ToolInProgress => Len(responses) <= 2
    /\ llm_calls - ExtractionInvocations - AnalyzeInvocations
          >= ToolsDone + (IF ToolInProgress THEN Len(responses) ELSE 0)
    /\ llm_calls - ExtractionInvocations - AnalyzeInvocations
          <= 2 * ToolsDone + (IF ToolInProgress THEN Len(responses) ELSE 0)
    /\ pc = "research" => llm_calls = 1
    /\ pc = "done" => llm_calls >= 2

\* C23: at every point of a run the model has been invoked at most
\* 2 + 2 * (number of tools whose search gave a result) times: once in the
\* extraction stage, also when no page content was gathered, at most twice
\* for each tool with a search result, never for a skipped tool, and once
\* in the analyze stage, also when companies is empty.
C23_InvocationBound ==
    /\ []C23_State
    /\ [][pc = "extract_llm" => llm_calls' = llm_calls + 1]_vars
    /\ [][pc = "analyze" => llm_calls' = llm_calls + 1]_vars
    /\ [][pc = "tool_loop" => llm_calls' = llm_calls]_vars
    /\ [][pc = "analysis" => llm_calls' = llm_calls + 1]_vars
    /\ [][pc = "returned" => llm_calls' = llm_calls]_vars

\* each of 4 tools had a search result and took two invocations, and the run
\* has ended after 10 invocations
C23_Witness ==
    /\ pc = "done"
    /\ Cardinality(FoundTools) = 4
    /\ llm_calls = 10

===============================================================================
